---- MODULE Spec2Model ----
(***************************************************************************)
(* Rabbit-prison simulation: world state, block placement, door push-out, *)
(* farm growth, and the per-tick rabbit needs/behaviour procedure.        *)
(*                                                                         *)
(* Numbers.  The program computes in floating point.  The model uses      *)
(* fixed point:                                                            *)
(*   - lengths in 1/U of a world unit (U = 8, so the speeds 3, 1.0, 0.75  *)
(*     and 0.5 are the integers 24, 8, 6 and 4);                           *)
(*   - need levels in 1/L of a point (L = 10000, so each per-tick rate    *)
(*     rate * 0.016 is an integer);                                        *)
(*   - times in milliseconds (delta_time 0.016 s is 16).                  *)
(***************************************************************************)
EXTENDS Integers, Sequences, FiniteSets, TLC

VARIABLES
    warden,         \* the Warden character (characters[0] of the program)
    rabbits,        \* the Rabbit characters, in list order (characters[1..])
    placed_blocks,  \* GameWorld.placed_blocks, in list order
    nextId,         \* identity of the next Block object created
    keys_pressed,   \* GameView.keys_pressed
    pc,             \* position inside update_game: "idle" (between ticks), "ai", "camera"
    idx,            \* index of the rabbit the AI loop of update_game is at
    ticks,          \* number of update_game calls started
    ops,            \* number of player operations performed
    lastOp,         \* the most recent player operation and its return value
    trace,          \* what the most recent step of the AI loop did
    items,          \* GameWorld.items, in list order
    held_item,      \* index in items of the world item the warden holds, or None
    bullets,        \* GameWorld.bullets, in list order
    camera,         \* GameView.camera_x, camera_y
    fed             \* the farm meals completed so far: who ate which farm

vars == <<warden, rabbits, placed_blocks, nextId, keys_pressed, pc, idx, ticks, ops, lastOp,
          trace, items, held_item, bullets, camera, fed>>

-----------------------------------------------------------------------------
(* Units *)

U == 2 * 4          \* fixed-point steps per world unit
L == 100 * 100      \* fixed-point steps per need point

-----------------------------------------------------------------------------
(* Bounds of the model *)

MaxTicks == 2       \* update_game calls in a behaviour
MaxOps == 1         \* player operations in a behaviour
MaxRabbits == 4     \* rabbits in the world, spawned ones included

-----------------------------------------------------------------------------
(* Program constants *)

WorldWidth == 2000
WorldHeight == 2000
BlockSize == 50
WardenSize == 20
RabbitSize == 50
WardenSpeed == 3
WardenStartCarrots == 10
DeltaTime == 16                 \* 0.016 s
GrowthTime == 10000             \* growth_time = 10.0 s
PlantDelay == 1000              \* 1.0 s before auto-planting
MaxSearchRadius == 200
BreedingCooldown == 30000       \* 30.0 s
BreedDistance == 30
FacilityDistance == 30
FarmEatDistance == 30
SleepSpotDistance == 20
WanderArriveDistance == 15
FarmEatDuration == 3000
EatDuration == 2000
DrinkDuration == 1000
SleepDuration == 5000
FarmSearchDistance == 500
FacilitySearchDistance == 500
HarvestDistance == 50
DoorDistance == 40
FarmEatBonus == 30
WorldMargin == 50
BulletSpeed == 15
BulletSize == 3
ItemRectSize == 10
PickupDistance == 30
ViewWidth == 800                \* the widget at its minimum size
ViewHeight == 600

Walls == << >>                  \* _create_walls adds none

BlockTypes == {"wall", "door", "food", "water", "farm", "fence"}

None == 0                       \* Python None, for references
NoBlock == [id |-> 0, x |-> 0, y |-> 0, block_type |-> "none"]

-----------------------------------------------------------------------------
(* Arithmetic *)

Abs(a) == IF a < 0 THEN -a ELSE a
Min(a, b) == IF a < b THEN a ELSE b
Max(a, b) == IF a > b THEN a ELSE b

\* int(): truncation toward zero of a quotient
TruncDiv(a, b) == IF a >= 0 THEN a \div b ELSE -((-a) \div b)
CeilDiv(a, b) == (a + b - 1) \div b

RECURSIVE SqrtIter(_, _, _)
SqrtIter(n, lo, hi) ==
    IF lo >= hi THEN lo
    ELSE LET mid == (lo + hi + 1) \div 2
         IN  IF mid * mid <= n THEN SqrtIter(n, mid, hi)
                               ELSE SqrtIter(n, lo, mid - 1)

\* math.sqrt, rounded down to the fixed-point grid
Sqrt(n) == SqrtIter(n, 0, 46340)

\* (dx**2 + dy**2)**0.5 < d, d in world units
DistLess(dx, dy, d) == dx * dx + dy * dy < (d * U) * (d * U)
\* (dx**2 + dy**2)**0.5 <= d
DistLeq(dx, dy, d) == dx * dx + dy * dy <= (d * U) * (d * U)

-----------------------------------------------------------------------------
(* Rectangles (QRectF) *)

Rect(x, y, w, h) == [x |-> x, y |-> y, w |-> w, h |-> h]

\* QRectF.intersects: the rectangles share interior area
Intersects(a, b) ==
    /\ a.x < b.x + b.w
    /\ b.x < a.x + a.w
    /\ a.y < b.y + b.h
    /\ b.y < a.y + a.h

\* Block.get_rect
BlockRect(b) == Rect(b.x, b.y, BlockSize * U, BlockSize * U)

\* Character.get_rect
CharRect(c) ==
    Rect(c.x - (c.size \div 2) * U, c.y - (c.size \div 2) * U, c.size * U, c.size * U)

\* Block.get_interaction_point
InteractionPoint(b) ==
    [x |-> b.x + (BlockSize \div 2) * U, y |-> b.y + (BlockSize \div 2) * U]

\* Block.is_harvestable
IsHarvestable(b) == b.block_type = "farm" /\ b.growth_stage = 3

\* Block.__init__
NewBlock(id, x, y, t) ==
    [id |-> id, x |-> x, y |-> y, block_type |-> t, is_open |-> FALSE,
     growth_stage |-> 0, growth_timer |-> 0]

\* the reference a rabbit keeps to a Block object
BlockRef(b) == [id |-> b.id, x |-> b.x, y |-> b.y, block_type |-> b.block_type]

\* GameWorld.characters as the list of bounding-box owners
Characters(w, rs) ==
    <<[x |-> w.x, y |-> w.y, size |-> w.size]>> \o
    [i \in 1..Len(rs) |-> [x |-> rs[i].x, y |-> rs[i].y, size |-> rs[i].size]]

\* (v // block_size) * block_size
Snap(v) == (v \div (BlockSize * U)) * (BlockSize * U)

\* blocks that check_collision and the push-out search treat as obstacles
Blocking(b) ==
    /\ ~(b.block_type = "door" /\ b.is_open)
    /\ b.block_type \notin {"food", "water", "farm"}

\* list.remove(x) by position in the list
RemoveAt(s, i) == [j \in 1..(Len(s) - 1) |-> IF j < i THEN s[j] ELSE s[j + 1]]

\* index of the first element of s satisfying P, 0 if none
FirstIndex(s, P(_)) ==
    IF \E i \in 1..Len(s) : P(s[i])
    THEN CHOOSE i \in 1..Len(s) : P(s[i]) /\ \A j \in 1..(i - 1) : ~P(s[j])
    ELSE 0

-----------------------------------------------------------------------------
(* GameWorld.check_collision *)

\* a collision test that takes every door for a closed one
check_collision_doors_shut(c, dx, dy, blocks) ==
    LET new_x == c.x + dx
        new_y == c.y + dy
        half == (c.size \div 2) * U
        test_rect == Rect(new_x - half, new_y - half, c.size * U, c.size * U)
    IN  \/ \E i \in 1..Len(blocks) :
              /\ blocks[i].block_type \in {"wall", "fence", "door"}
              /\ Intersects(test_rect, BlockRect(blocks[i]))
        \/ new_x - half < 0
        \/ new_x + half > WorldWidth * U
        \/ new_y - half < 0
        \/ new_y + half > WorldHeight * U

check_collision(c, dx, dy, blocks) ==
    LET new_x == c.x + dx
        new_y == c.y + dy
        half == (c.size \div 2) * U
        test_rect == Rect(new_x - half, new_y - half, c.size * U, c.size * U)
    IN  \/ \E i \in 1..Len(Walls) : Intersects(test_rect, Walls[i])
        \/ \E i \in 1..Len(blocks) :
              Blocking(blocks[i]) /\ Intersects(test_rect, BlockRect(blocks[i]))
        \/ new_x - half < 0
        \/ new_x + half > WorldWidth * U
        \/ new_y - half < 0
        \/ new_y + half > WorldHeight * U

-----------------------------------------------------------------------------
(* GameWorld.place_block, remove_block *)

\* placer is TRUE when a warden is passed, carrots is that warden's count.
\* The result holds the return value and the state the call leaves.
\* a farm placed without asking for a carrot
FarmRefusedNever(carrots, placer, block_type) == FALSE

\* lines 272-275: a farm needs a placer holding at least one carrot
FarmRefused(carrots, placer, block_type) ==
    block_type = "farm" /\ (~placer \/ carrots < 1)

\* a placement that does not look at the blocks already there
OccupiedNever(new_block_rect, blocks) == FALSE

\* lines 281-284: the cell already holds a block
Occupied(new_block_rect, blocks) ==
    \E i \in 1..Len(blocks) : Intersects(new_block_rect, BlockRect(blocks[i]))

\* a placement that charges two carrots for a farm
place_block_two_carrots(blocks, chars, carrots, placer, x, y, block_type, id) ==
    LET snapped_x == Snap(x)
        snapped_y == Snap(y)
        refused == FarmRefused(carrots, placer, block_type)
        carrots1 == IF block_type = "farm" /\ ~refused THEN carrots - 2 ELSE carrots
        new_block_rect == Rect(snapped_x, snapped_y, BlockSize * U, BlockSize * U)
        occupied == Occupied(new_block_rect, blocks)
        inhabited ==
            \E i \in 1..Len(chars) : Intersects(new_block_rect, CharRect(chars[i]))
    IN  IF refused
        THEN [ret |-> FALSE, blocks |-> blocks, carrots |-> carrots]
        ELSE IF occupied \/ inhabited
        THEN [ret |-> FALSE, blocks |-> blocks, carrots |-> carrots1]
        ELSE [ret |-> TRUE,
              blocks |-> Append(blocks, NewBlock(id, snapped_x, snapped_y, block_type)),
              carrots |-> carrots1]

place_block(blocks, chars, carrots, placer, x, y, block_type, id) ==
    LET snapped_x == Snap(x)
        snapped_y == Snap(y)
        refused == FarmRefused(carrots, placer, block_type)
        carrots1 == IF block_type = "farm" /\ ~refused THEN carrots - 1 ELSE carrots
        new_block_rect == Rect(snapped_x, snapped_y, BlockSize * U, BlockSize * U)
        occupied == Occupied(new_block_rect, blocks)
        inhabited ==
            \E i \in 1..Len(chars) : Intersects(new_block_rect, CharRect(chars[i]))
    IN  IF refused
        THEN [ret |-> FALSE, blocks |-> blocks, carrots |-> carrots]
        ELSE IF occupied \/ inhabited
        THEN [ret |-> FALSE, blocks |-> blocks, carrots |-> carrots1]
        ELSE [ret |-> TRUE,
              blocks |-> Append(blocks, NewBlock(id, snapped_x, snapped_y, block_type)),
              carrots |-> carrots1]

\* a removal that compares the column only
remove_block_in_column(blocks, x, y) ==
    LET snapped_x == Snap(x)
        InColumn(b) == b.x = snapped_x
        i == FirstIndex(blocks, InColumn)
    IN  IF i # 0
        THEN [ret |-> TRUE, blocks |-> RemoveAt(blocks, i)]
        ELSE [ret |-> FALSE, blocks |-> blocks]

remove_block(blocks, x, y) ==
    LET snapped_x == Snap(x)
        snapped_y == Snap(y)
        At(b) == b.x = snapped_x /\ b.y = snapped_y
        i == FirstIndex(blocks, At)
    IN  IF i # 0
        THEN [ret |-> TRUE, blocks |-> RemoveAt(blocks, i)]
        ELSE [ret |-> FALSE, blocks |-> blocks]

-----------------------------------------------------------------------------
(* GameWorld._find_closest_free_space, _push_objects_from_door, toggle_door *)

\* 10000 * cos(k * 45 degrees), k = 0..7; the sine is the cosine of k - 2
Cos45 == <<10000, 7071, 0, -7071, -10000, -7071, 0, 7071>>
CosOf(k) == Cos45[(k % 8) + 1]
SinOf(k) == Cos45[((k + 6) % 8) + 1]

\* range(search_step, max_search_radius, search_step)
SearchRadii ==
    [n \in 1..((MaxSearchRadius - 1) \div BlockSize) |-> n * BlockSize]

\* the n-th candidate cell (n = 0..): ring n \div 8, direction n % 8
Candidate(door_block, n) ==
    LET door_center_x == door_block.x + (BlockSize \div 2) * U
        door_center_y == door_block.y + (BlockSize \div 2) * U
        radius == SearchRadii[(n \div 8) + 1]
        check_x == door_center_x + TruncDiv(CosOf(n % 8) * radius * U, 10000)
        check_y == door_center_y + TruncDiv(SinOf(n % 8) * radius * U, 10000)
    IN  [x |-> (TruncDiv(check_x, U) \div BlockSize) * BlockSize * U,
         y |-> (TruncDiv(check_y, U) \div BlockSize) * BlockSize * U]

\* the test the search applies to a candidate cell
CellFree(door_block, cell, blocks) ==
    LET test_rect == Rect(cell.x, cell.y, BlockSize * U, BlockSize * U)
    IN  /\ \A i \in 1..Len(Walls) : ~Intersects(test_rect, Walls[i])
        /\ \A i \in 1..Len(blocks) :
              \/ blocks[i].id = door_block.id
              \/ ~Blocking(blocks[i])
              \/ ~Intersects(test_rect, BlockRect(blocks[i]))

\* a shove of half a block
PushAwayHalfBlock(door_block, start_x, start_y) ==
    LET door_center_x == door_block.x + (BlockSize \div 2) * U
        door_center_y == door_block.y + (BlockSize \div 2) * U
        dx == start_x - door_center_x
        dy == start_y - door_center_y
        distance == Sqrt(dx * dx + dy * dy)
    IN  IF dx = 0 /\ dy = 0
        THEN [x |-> door_center_x, y |-> door_center_y - (BlockSize \div 2) * U]
        ELSE [x |-> door_center_x + TruncDiv(dx * (BlockSize \div 2) * U, distance),
              y |-> door_center_y + TruncDiv(dy * (BlockSize \div 2) * U, distance)]

\* the shove used when no candidate is free
PushAway(door_block, start_x, start_y) ==
    LET door_center_x == door_block.x + (BlockSize \div 2) * U
        door_center_y == door_block.y + (BlockSize \div 2) * U
        dx == start_x - door_center_x
        dy == start_y - door_center_y
        distance == Sqrt(dx * dx + dy * dy)
    IN  IF dx = 0 /\ dy = 0
        THEN [x |-> door_center_x, y |-> door_center_y - BlockSize * U]
        ELSE [x |-> door_center_x + TruncDiv(dx * BlockSize * 2 * U, distance),
              y |-> door_center_y + TruncDiv(dy * BlockSize * 2 * U, distance)]

find_closest_free_space(door_block, start_x, start_y, blocks) ==
    LET N == 8 * Len(SearchRadii)
        Free(n) == CellFree(door_block, Candidate(door_block, n), blocks)
    IN  IF \E n \in 0..(N - 1) : Free(n)
        THEN LET n == CHOOSE m \in 0..(N - 1) : Free(m) /\ \A k \in 0..(m - 1) : ~Free(k)
                 cell == Candidate(door_block, n)
             IN  [x |-> cell.x + (BlockSize \div 2) * U,
                  y |-> cell.y + (BlockSize \div 2) * U]
        ELSE PushAway(door_block, start_x, start_y)

\* the position _push_objects_from_door leaves a character at
PushedChar(c, door_block, blocks) ==
    IF Intersects(CharRect(c), BlockRect(door_block))
    THEN LET p == find_closest_free_space(door_block, c.x, c.y, blocks)
         IN  [c EXCEPT !.x = p.x, !.y = p.y]
    ELSE c

toggle_door(blocks, w, rs, x, y) ==
    LET snapped_x == Snap(x)
        snapped_y == Snap(y)
        At(b) == b.block_type = "door" /\ b.x = snapped_x /\ b.y = snapped_y
        i == FirstIndex(blocks, At)
    IN  IF i = 0
        THEN [ret |-> FALSE, blocks |-> blocks, warden |-> w, rabbits |-> rs]
        ELSE LET was_open == blocks[i].is_open
                 blocks1 == [blocks EXCEPT ![i].is_open = ~was_open]
             IN  IF was_open
                 THEN [ret |-> TRUE, blocks |-> blocks1,
                       warden |-> PushedChar(w, blocks1[i], blocks1),
                       rabbits |-> [j \in 1..Len(rs) |->
                                       PushedChar(rs[j], blocks1[i], blocks1)]]
                 ELSE [ret |-> TRUE, blocks |-> blocks1, warden |-> w, rabbits |-> rs]

\* lines 408-415: the small rect _push_objects_from_door gives an item
ItemRect(it) ==
    Rect(it.x - (ItemRectSize \div 2) * U, it.y - (ItemRectSize \div 2) * U,
         ItemRectSize * U, ItemRectSize * U)

\* Bullet.get_rect
BulletRect(b) ==
    Rect(b.x - (BulletSize \div 2) * U, b.y - (BulletSize \div 2) * U,
         BulletSize * U, BulletSize * U)

\* lines 408-415: unheld items in the closing door's cell are relocated
PushedItem(it, door_block, blocks) ==
    IF ~it.held /\ Intersects(ItemRect(it), BlockRect(door_block))
    THEN LET p == find_closest_free_space(door_block, it.x, it.y, blocks)
         IN  [it EXCEPT !.x = p.x, !.y = p.y]
    ELSE it

\* bullets in the closing door's cell are moved one cell north of it
BulletsOutside_relocated(bs, door_block) ==
    [i \in 1..Len(bs) |->
        IF bs[i].active /\ Intersects(BulletRect(bs[i]), BlockRect(door_block))
        THEN [bs[i] EXCEPT !.y = door_block.y - BlockSize * U]
        ELSE bs[i]]

\* lines 417-427: bullets in the closing door's cell are destroyed
RECURSIVE BulletsOutside(_, _)
BulletsOutside(bs, door_block) ==
    IF bs = << >> THEN << >>
    ELSE IF Head(bs).active /\ Intersects(BulletRect(Head(bs)), BlockRect(door_block))
    THEN BulletsOutside(Tail(bs), door_block)
    ELSE <<Head(bs)>> \o BulletsOutside(Tail(bs), door_block)

\* index of the door that toggle_door(x, y) toggles, 0 if it toggles none
ToggledDoor(blocks, x, y) ==
    LET Here(i) == /\ blocks[i].block_type = "door"
                   /\ blocks[i].x = Snap(x) /\ blocks[i].y = Snap(y)
    IN  IF \E i \in 1..Len(blocks) : Here(i)
        THEN CHOOSE j \in 1..Len(blocks) : Here(j) /\ \A k \in 1..(j - 1) : ~Here(k)
        ELSE 0

\* index of the door that toggle_door(x, y) closes, 0 if it closes none
ClosedDoor(blocks, x, y) ==
    LET d == ToggledDoor(blocks, x, y)
    IN  IF d # 0 /\ blocks[d].is_open THEN d ELSE 0

\* a toggle that clears the door's cell whichever way the door goes
toggle_door_objects_always(blocks, its, bs, x, y) ==
    LET d == ToggledDoor(blocks, x, y)
        toggled == [blocks EXCEPT ![d].is_open = ~blocks[d].is_open]
    IN  IF d = 0
        THEN [items |-> its, bullets |-> bs]
        ELSE [items |-> [i \in 1..Len(its) |-> PushedItem(its[i], toggled[d], toggled)],
              bullets |-> BulletsOutside(bs, toggled[d])]

\* the items and bullets toggle_door(x, y) leaves: _push_objects_from_door
\* runs only when the door goes from open to closed
toggle_door_objects(blocks, its, bs, x, y) ==
    LET d == ClosedDoor(blocks, x, y)
        closed == [blocks EXCEPT ![d].is_open = FALSE]
    IN  IF d = 0
        THEN [items |-> its, bullets |-> bs]
        ELSE [items |-> [i \in 1..Len(its) |-> PushedItem(its[i], closed[d], closed)],
              bullets |-> BulletsOutside(bs, closed[d])]

\* Bullet.update
bullet_update_half(b) ==
    IF b.active
    THEN [b EXCEPT !.x = b.x + TruncDiv(CosOf(b.angle) * BulletSpeed * U, 20000),
                   !.y = b.y + TruncDiv(SinOf(b.angle) * BulletSpeed * U, 20000)]
    ELSE b

\* Bullet.update: an active bullet advances by speed along its angle
bullet_update(b) ==
    IF b.active
    THEN [b EXCEPT !.x = b.x + TruncDiv(CosOf(b.angle) * BulletSpeed * U, 10000),
                   !.y = b.y + TruncDiv(SinOf(b.angle) * BulletSpeed * U, 10000)]
    ELSE b

\* every bullet moves and none is dropped
update_bullets_kept(bs) == [i \in 1..Len(bs) |-> bullet_update(bs[i])]

\* GameWorld.update_bullets: move every bullet, drop those out of bounds or
\* in a wall
RECURSIVE update_bullets(_)
update_bullets(bs) ==
    IF bs = << >> THEN << >>
    ELSE LET b == bullet_update(Head(bs))
             out == \/ b.x < 0 \/ b.x > WorldWidth * U
                    \/ b.y < 0 \/ b.y > WorldHeight * U
             hit == \E i \in 1..Len(Walls) : Intersects(BulletRect(b), Walls[i])
         IN  IF out \/ hit THEN update_bullets(Tail(bs))
             ELSE <<b>> \o update_bullets(Tail(bs))

\* lines 414-430: the warden picks up the first unheld item within reach and
\* drops the world item it held at its own position
item_pickup(its, held, w) ==
    LET Reach(i) == /\ ~its[i].held
                    /\ DistLess(its[i].x - w.x, its[i].y - w.y, PickupDistance)
    IN  IF \E i \in 1..Len(its) : Reach(i)
        THEN LET i == CHOOSE j \in 1..Len(its) :
                        Reach(j) /\ \A k \in 1..(j - 1) : ~Reach(k)
                 its1 == IF held # None
                         THEN [its EXCEPT ![held].held = FALSE]
                         ELSE its
                 its2 == [its1 EXCEPT ![i].held = TRUE]
                 its3 == IF held # None
                         THEN [its2 EXCEPT ![held] = [x |-> w.x, y |-> w.y,
                                                      held |-> FALSE]]
                         ELSE its2
             IN  [items |-> its3, held_item |-> i]
        ELSE [items |-> its, held_item |-> held]

\* lines 432-441: the camera centred on the warden, clamped to the world
camera_follow(w) ==
    [x |-> Max(0, Min(w.x - (ViewWidth \div 2) * U, (WorldWidth - ViewWidth) * U)),
     y |-> Max(0, Min(w.y - (ViewHeight \div 2) * U, (WorldHeight - ViewHeight) * U))]

-----------------------------------------------------------------------------
(* Block.update_growth, Block.harvest, GameWorld.update_farms *)

\* a growth step that restarts the timer whenever the stage changes
update_growth_restarting(b, delta_time) ==
    IF b.block_type # "farm" \/ b.growth_stage = 3 THEN b
    ELSE LET t == b.growth_timer + delta_time
             stage == IF b.growth_stage = 0
                      THEN (IF t >= PlantDelay THEN 1 ELSE 0)
                      ELSE IF t * 100 < 33 * GrowthTime THEN 1
                      ELSE IF t * 100 < 66 * GrowthTime THEN 2
                      ELSE 3
         IN  [b EXCEPT !.growth_stage = stage,
                       !.growth_timer = IF stage # b.growth_stage THEN 0 ELSE t]

update_growth(b, delta_time) ==
    IF b.block_type # "farm" THEN b
    ELSE IF b.growth_stage = 0
    THEN LET t == b.growth_timer + delta_time
         IN  IF t >= PlantDelay
             THEN [b EXCEPT !.growth_stage = 1, !.growth_timer = 0]
             ELSE [b EXCEPT !.growth_timer = t]
    ELSE IF b.growth_stage < 3
    THEN LET t == b.growth_timer + delta_time
             \* growth_progress = t / growth_time, compared with 0.33 and 0.66
             stage == IF t * 100 < 33 * GrowthTime THEN 1
                      ELSE IF t * 100 < 66 * GrowthTime THEN 2
                      ELSE 3
         IN  [b EXCEPT !.growth_stage = stage, !.growth_timer = t]
    ELSE b

\* a harvest that also takes a farm that is still growing
harvest_early(b) ==
    IF b.block_type = "farm" /\ b.growth_stage >= 2
    THEN [ret |-> TRUE, block |-> [b EXCEPT !.growth_stage = 0, !.growth_timer = 0]]
    ELSE [ret |-> FALSE, block |-> b]

harvest(b) ==
    IF b.block_type = "farm" /\ b.growth_stage = 3
    THEN [ret |-> TRUE, block |-> [b EXCEPT !.growth_stage = 0, !.growth_timer = 0]]
    ELSE [ret |-> FALSE, block |-> b]

update_farms(blocks, delta_time) ==
    [i \in 1..Len(blocks) |->
        IF blocks[i].block_type = "farm"
        THEN update_growth(blocks[i], delta_time)
        ELSE blocks[i]]

\* get_nearby_harvestable_farm: first harvestable farm within max_distance
get_nearby_harvestable_farm(blocks, x, y, max_distance) ==
    LET Near(b) ==
            /\ IsHarvestable(b)
            /\ DistLeq(InteractionPoint(b).x - x, InteractionPoint(b).y - y, max_distance)
    IN  FirstIndex(blocks, Near)

\* get_nearby_door: first door within max_distance
get_nearby_door(blocks, x, y, max_distance) ==
    LET Near(b) ==
            /\ b.block_type = "door"
            /\ DistLeq(InteractionPoint(b).x - x, InteractionPoint(b).y - y, max_distance)
    IN  FirstIndex(blocks, Near)

-----------------------------------------------------------------------------
(* Rabbit: construction, needs, action starts, movement *)

\* per-second rates of update_needs, in tenths of a point
FoodDecayRate == 5
WaterDecayRate == 8
SleepDecayRate == 3
EatRestoreRate == 250
DrinkRestoreRate == 500
SleepRestoreRate == 200

\* rate * delta_time, in fixed-point need steps
PerTick(rate, delta_time) == (rate * delta_time * L) \div 10000

\* sleep_needed / 20.0 seconds, in milliseconds (never 0 when sleep_needed > 0)
SleepTime(sleep_needed) == CeilDiv(sleep_needed * 10, (SleepRestoreRate * L) \div 1000)

\* Rabbit.__init__ followed by the three random.uniform(50, 100) assignments
NewRabbit(x, y, food, water, sleep) ==
    [x |-> x, y |-> y, size |-> RabbitSize, speed |-> U,
     health |-> 100 * L,
     food_level |-> food, water_level |-> water, sleep_level |-> sleep,
     is_eating |-> FALSE, is_drinking |-> FALSE, is_sleeping |-> FALSE,
     action_timer |-> 0, target_facility |-> NoBlock,
     random_target_x |-> None, random_target_y |-> None,
     wait_timer |-> 0, is_waiting |-> FALSE,
     is_breeding |-> FALSE, breeding_cooldown |-> 0, breeding_partner |-> None]

\* an update_needs whose sleep ends with its timer, rested or not
update_needs_timeboxed(r, delta_time) ==
    LET food1 == IF ~r.is_eating
                 THEN Max(0, r.food_level - PerTick(FoodDecayRate, delta_time))
                 ELSE r.food_level
        water1 == IF ~r.is_drinking
                  THEN Max(0, r.water_level - PerTick(WaterDecayRate, delta_time))
                  ELSE r.water_level
        sleep1 == IF ~r.is_sleeping
                  THEN Max(0, r.sleep_level - PerTick(SleepDecayRate, delta_time))
                  ELSE r.sleep_level
        food2 == IF r.is_eating
                 THEN Min(100 * L, food1 + PerTick(EatRestoreRate, delta_time))
                 ELSE food1
        water2 == IF r.is_drinking
                  THEN Min(100 * L, water1 + PerTick(DrinkRestoreRate, delta_time))
                  ELSE water1
        sleep2 == IF r.is_sleeping
                  THEN Min(100 * L, sleep1 + PerTick(SleepRestoreRate, delta_time))
                  ELSE sleep1
        cooldown == IF r.breeding_cooldown > 0
                    THEN r.breeding_cooldown - delta_time
                    ELSE r.breeding_cooldown
        timer1 == IF r.action_timer > 0 THEN r.action_timer - delta_time
                  ELSE r.action_timer
        expired == r.action_timer > 0 /\ timer1 <= 0
        speed == IF food2 < 10 * L \/ water2 < 10 * L THEN U \div 2
                 ELSE IF food2 < 30 * L \/ water2 < 30 * L THEN (3 * U) \div 4
                 ELSE U
    IN  [r EXCEPT !.food_level = food2, !.water_level = water2,
                  !.sleep_level = sleep2, !.breeding_cooldown = cooldown,
                  !.action_timer = timer1,
                  !.is_eating = IF expired THEN FALSE ELSE r.is_eating,
                  !.is_drinking = IF expired THEN FALSE ELSE r.is_drinking,
                  !.is_sleeping = IF expired THEN FALSE ELSE r.is_sleeping,
                  !.target_facility = IF expired THEN NoBlock ELSE r.target_facility,
                  !.speed = speed]

\* Rabbit.update_needs
update_needs(r, delta_time) ==
    LET food1 == IF ~r.is_eating
                 THEN Max(0, r.food_level - PerTick(FoodDecayRate, delta_time))
                 ELSE r.food_level
        water1 == IF ~r.is_drinking
                  THEN Max(0, r.water_level - PerTick(WaterDecayRate, delta_time))
                  ELSE r.water_level
        sleep1 == IF ~r.is_sleeping
                  THEN Max(0, r.sleep_level - PerTick(SleepDecayRate, delta_time))
                  ELSE r.sleep_level
        food2 == IF r.is_eating
                 THEN Min(100 * L, food1 + PerTick(EatRestoreRate, delta_time))
                 ELSE food1
        water2 == IF r.is_drinking
                  THEN Min(100 * L, water1 + PerTick(DrinkRestoreRate, delta_time))
                  ELSE water1
        sleep2 == IF r.is_sleeping
                  THEN Min(100 * L, sleep1 + PerTick(SleepRestoreRate, delta_time))
                  ELSE sleep1
        cooldown == IF r.breeding_cooldown > 0
                    THEN r.breeding_cooldown - delta_time
                    ELSE r.breeding_cooldown
        timer1 == IF r.action_timer > 0 THEN r.action_timer - delta_time
                  ELSE r.action_timer
        expired == r.action_timer > 0 /\ timer1 <= 0
        eating == IF expired THEN FALSE ELSE r.is_eating
        drinking == IF expired /\ ~r.is_eating THEN FALSE ELSE r.is_drinking
        wakes == expired /\ ~r.is_eating /\ ~r.is_drinking /\ r.is_sleeping
        sleeping == IF wakes /\ sleep2 >= 100 * L THEN FALSE ELSE r.is_sleeping
        timer2 == IF wakes /\ sleep2 < 100 * L THEN SleepTime(100 * L - sleep2)
                  ELSE timer1
        target == IF expired /\ ~sleeping THEN NoBlock ELSE r.target_facility
        speed == IF food2 < 10 * L \/ water2 < 10 * L THEN U \div 2
                 ELSE IF food2 < 30 * L \/ water2 < 30 * L THEN (3 * U) \div 4
                 ELSE U
    IN  [r EXCEPT !.food_level = food2, !.water_level = water2,
                  !.sleep_level = sleep2, !.breeding_cooldown = cooldown,
                  !.action_timer = timer2, !.is_eating = eating,
                  !.is_drinking = drinking, !.is_sleeping = sleeping,
                  !.target_facility = target, !.speed = speed]

start_eating(r, duration) ==
    [r EXCEPT !.is_eating = TRUE, !.is_drinking = FALSE, !.is_sleeping = FALSE,
              !.action_timer = duration]

\* a start_drinking that sets no timer
start_drinking_untimed(r, duration) ==
    [r EXCEPT !.is_eating = FALSE, !.is_drinking = TRUE, !.is_sleeping = FALSE,
              !.action_timer = 0]

start_drinking(r, duration) ==
    [r EXCEPT !.is_eating = FALSE, !.is_drinking = TRUE, !.is_sleeping = FALSE,
              !.action_timer = duration]

\* a start_sleeping that leaves is_drinking alone
start_sleeping_while_drinking(r, duration) ==
    [r EXCEPT !.is_eating = FALSE, !.is_sleeping = TRUE, !.is_breeding = FALSE,
              !.action_timer = Max(duration, SleepTime(100 * L - r.sleep_level))]

start_sleeping(r, duration) ==
    [r EXCEPT !.is_eating = FALSE, !.is_drinking = FALSE, !.is_sleeping = TRUE,
              !.is_breeding = FALSE,
              !.action_timer = Max(duration, SleepTime(100 * L - r.sleep_level))]

\* a start_breeding that puts the rabbit to sleep as well
start_breeding_asleep(r) ==
    [r EXCEPT !.is_eating = FALSE, !.is_drinking = FALSE, !.is_sleeping = TRUE,
              !.is_breeding = TRUE, !.breeding_partner = None]

start_breeding(r) ==
    [r EXCEPT !.is_eating = FALSE, !.is_drinking = FALSE, !.is_sleeping = FALSE,
              !.is_breeding = TRUE, !.breeding_partner = None]

\* the displacement Character.move_towards / Rabbit.move_towards applies
\* a step that tries each axis on its own after a blocked full displacement
MoveStepBothAxes(c, target_x, target_y, blocks) ==
    LET dx == target_x - c.x
        dy == target_y - c.y
        distance == Sqrt(dx * dx + dy * dy)
        move_dx == TruncDiv(dx * c.speed, distance)
        move_dy == TruncDiv(dy * c.speed, distance)
    IN  IF DistLess(dx, dy, 1) THEN [dx |-> 0, dy |-> 0]
        ELSE IF ~check_collision(c, move_dx, move_dy, blocks)
        THEN [dx |-> move_dx, dy |-> move_dy]
        ELSE [dx |-> IF Abs(move_dx) * 10 > U /\ ~check_collision(c, move_dx, 0, blocks)
                     THEN move_dx ELSE 0,
              dy |-> IF Abs(move_dy) * 10 > U /\ ~check_collision(c, 0, move_dy, blocks)
                     THEN move_dy ELSE 0]

MoveStep(c, target_x, target_y, blocks) ==
    LET dx == target_x - c.x
        dy == target_y - c.y
        distance == Sqrt(dx * dx + dy * dy)
        move_dx == TruncDiv(dx * c.speed, distance)
        move_dy == TruncDiv(dy * c.speed, distance)
    IN  IF DistLess(dx, dy, 1) THEN [dx |-> 0, dy |-> 0]
        ELSE IF ~check_collision(c, move_dx, move_dy, blocks)
        THEN [dx |-> move_dx, dy |-> move_dy]
        ELSE IF Abs(move_dx) * 10 > U /\ ~check_collision(c, move_dx, 0, blocks)
        THEN [dx |-> move_dx, dy |-> 0]
        ELSE IF Abs(move_dy) * 10 > U /\ ~check_collision(c, 0, move_dy, blocks)
        THEN [dx |-> 0, dy |-> move_dy]
        ELSE [dx |-> 0, dy |-> 0]

\* a move_towards that holds still only while asleep
move_towards_awake(r, target_x, target_y, blocks) ==
    IF r.is_sleeping THEN r
    ELSE LET m == MoveStep(r, target_x, target_y, blocks)
         IN  [r EXCEPT !.x = r.x + m.dx, !.y = r.y + m.dy]

\* Rabbit.move_towards
move_towards(r, target_x, target_y, blocks) ==
    IF r.is_sleeping \/ r.is_eating \/ r.is_drinking THEN r
    ELSE LET m == MoveStep(r, target_x, target_y, blocks)
         IN  [r EXCEPT !.x = r.x + m.dx, !.y = r.y + m.dy]

-----------------------------------------------------------------------------
(* GameWorld.find_nearest_*_block, is_at_facility *)

Dist2(b, x, y) ==
    LET p == InteractionPoint(b)
    IN  (p.x - x) * (p.x - x) + (p.y - y) * (p.y - y)

\* linear scan keeping the first block at the least distance < max_distance
FindNearest(blocks, Kind(_), x, y, max_distance) ==
    LET C == {i \in 1..Len(blocks) :
                 /\ Kind(blocks[i])
                 /\ Dist2(blocks[i], x, y) < (max_distance * U) * (max_distance * U)}
    IN  IF C = {} THEN 0
        ELSE CHOOSE i \in C : \A j \in C :
                \/ Dist2(blocks[i], x, y) < Dist2(blocks[j], x, y)
                \/ (Dist2(blocks[i], x, y) = Dist2(blocks[j], x, y) /\ i <= j)

IsFood(b) == b.block_type = "food"
IsWater(b) == b.block_type = "water"

\* a scan that returns the first Food block in range
find_first_food_block(blocks, x, y, max_distance) ==
    LET InRange(b) ==
            IsFood(b) /\ Dist2(b, x, y) < (max_distance * U) * (max_distance * U)
    IN  FirstIndex(blocks, InRange)

find_nearest_food_block(blocks, x, y, max_distance) ==
    FindNearest(blocks, IsFood, x, y, max_distance)

\* a scan that also accepts a Water block exactly max_distance away
find_nearest_water_block_inclusive(blocks, x, y, max_distance) ==
    LET C == {i \in 1..Len(blocks) :
                 /\ IsWater(blocks[i])
                 /\ Dist2(blocks[i], x, y) <= (max_distance * U) * (max_distance * U)}
    IN  IF C = {} THEN 0
        ELSE CHOOSE i \in C : \A j \in C :
                \/ Dist2(blocks[i], x, y) < Dist2(blocks[j], x, y)
                \/ (Dist2(blocks[i], x, y) = Dist2(blocks[j], x, y) /\ i <= j)

find_nearest_water_block(blocks, x, y, max_distance) ==
    FindNearest(blocks, IsWater, x, y, max_distance)

find_nearest_harvestable_farm(blocks, x, y, max_distance) ==
    FindNearest(blocks, IsHarvestable, x, y, max_distance)

is_at_facility(c, b) ==
    DistLess(InteractionPoint(b).x - c.x, InteractionPoint(b).y - c.y, FacilityDistance)

-----------------------------------------------------------------------------
(* GameView.update_game: the body of the rabbit AI loop *)

\* the values the random module may return, sampled
BreedDraws == BOOLEAN                   \* random.random() < 0.05
WanderDirs == {0, 5}                    \* angle = k * 45 degrees
WanderDistances == {100}                \* random.uniform(50, 150)
WaitTimes == {1000, 3000}               \* random.uniform(1.0, 3.0) seconds
\* three random.uniform(50, 100) draws: food, water, sleep
SpawnLevels == {<<50 * L, 60 * L, 70 * L>>, <<100 * L, 100 * L, 100 * L>>}

NoDraw ==
    [breed |-> FALSE, dir |-> 0, dist |-> 100, wait |-> 1000,
     levels |-> <<50 * L, 60 * L, 70 * L>>]

\* the draws a step may receive when it consults the generators in `used`
Draws(used) ==
    [breed : IF "breed" \in used THEN BreedDraws ELSE {NoDraw.breed},
     dir   : IF "wander" \in used THEN WanderDirs ELSE {NoDraw.dir},
     dist  : IF "wander" \in used THEN WanderDistances ELSE {NoDraw.dist},
     wait  : IF "wait" \in used THEN WaitTimes ELSE {NoDraw.wait},
     levels : IF "spawn" \in used THEN SpawnLevels ELSE {NoDraw.levels}]

Clamp(v, lo, hi) == Max(lo, Min(v, hi))

ResetWander(r) ==
    [r EXCEPT !.random_target_x = None, !.random_target_y = None, !.is_waiting = FALSE]

\* the result of one loop body: the lists it leaves, what it did, the
\* movement target it used, and the generators it consulted
Outcome(rs, blocks, steps, tx, ty, used) ==
    [rabbits |-> rs, blocks |-> blocks, steps |-> steps,
     target_x |-> tx, target_y |-> ty, used |-> used]

\* lines 139-164: a rabbit eating from a Farm target
\* a farm meal whose bonus is not cut off at 100
FarmMealUncapped(r) ==
    [r EXCEPT !.food_level = r.food_level + FarmEatBonus * L,
              !.is_eating = FALSE, !.target_facility = NoBlock]

\* lines 157-161: the bonus of a finished farm meal
FarmMeal(r) ==
    [r EXCEPT !.food_level = Min(100 * L, r.food_level + FarmEatBonus * L),
              !.is_eating = FALSE, !.target_facility = NoBlock]

\* a finished farm meal that leaves the farm standing
FarmEatStepSparing(i, rs, blocks) ==
    LET r1 == update_needs(rs[i], DeltaTime)
    IN  IF rs[i].action_timer > 0 /\ r1.action_timer <= 0
        THEN Outcome([rs EXCEPT ![i] = FarmMeal(r1)], blocks, {"farm_eat_done"},
                     None, None, {})
        ELSE Outcome([rs EXCEPT ![i] = r1], blocks, {"farm_eating"}, None, None, {})

FarmEatStep(i, rs, blocks) ==
    LET r0 == rs[i]
        farm_to_remove == r0.target_facility
        timer_before == r0.action_timer
        r1 == update_needs(r0, DeltaTime)
        Same(b) == b.id = farm_to_remove.id
        k == FirstIndex(blocks, Same)
        blocks1 == IF k # 0 THEN RemoveAt(blocks, k) ELSE blocks
        blocks2 == remove_block(blocks1, farm_to_remove.x, farm_to_remove.y).blocks
        r2 == FarmMeal(r1)
    IN  IF timer_before > 0 /\ r1.action_timer <= 0
        THEN Outcome([rs EXCEPT ![i] = r2], blocks2, {"farm_eat_done"}, None, None, {})
        ELSE Outcome([rs EXCEPT ![i] = r1], blocks, {"farm_eating"}, None, None, {})

\* a search that also takes a rabbit paired with someone else
FindPartnerTaken(i, rs) ==
    LET D2(j) == (rs[j].x - rs[i].x) * (rs[j].x - rs[i].x)
                 + (rs[j].y - rs[i].y) * (rs[j].y - rs[i].y)
        C == {j \in 1..Len(rs) : j # i /\ rs[j].is_breeding}
    IN  IF C = {} THEN None
        ELSE CHOOSE j \in C : \A k \in C :
                D2(j) < D2(k) \/ (D2(j) = D2(k) /\ j <= k)

\* lines 182-198: the closest rabbit in breeding mode that is free or already ours
FindPartner(i, rs) ==
    LET D2(j) == (rs[j].x - rs[i].x) * (rs[j].x - rs[i].x)
                 + (rs[j].y - rs[i].y) * (rs[j].y - rs[i].y)
        C == {j \in 1..Len(rs) :
                 /\ j # i
                 /\ rs[j].is_breeding
                 /\ rs[j].breeding_partner \in {None, i}}
    IN  IF C = {} THEN None
        ELSE CHOOSE j \in C : \A k \in C :
                D2(j) < D2(k) \/ (D2(j) = D2(k) /\ j <= k)

\* a pairing recorded on the searching side only
PairOneSided(i, closest_partner, rs) ==
    [rs EXCEPT ![i].breeding_partner = closest_partner]

\* lines 200-204: record the pairing on both sides
Pair(i, closest_partner, rs) ==
    [rs EXCEPT ![i].breeding_partner = closest_partner,
               ![closest_partner].breeding_partner = i]

\* a completion that leaves the partner in breeding mode
CompleteBreedingOneParent(i, p, rs, rnd) ==
    LET new_rabbit == NewRabbit((rs[i].x + rs[p].x) \div 2, (rs[i].y + rs[p].y) \div 2,
                                rnd.levels[1], rnd.levels[2], rnd.levels[3])
        rs1 == [rs EXCEPT ![i].is_breeding = FALSE,
                          ![i].breeding_cooldown = BreedingCooldown,
                          ![i].breeding_partner = None,
                          ![p].breeding_cooldown = BreedingCooldown,
                          ![p].breeding_partner = None]
        rs3 == Append(rs1, new_rabbit)
    IN  [rs3 EXCEPT ![i] = ResetWander(rs3[i])]

\* lines 223-248: both parents leave breeding mode and one rabbit is appended
CompleteBreeding(i, p, rs, rnd) ==
    LET partner_x == rs[p].x
        partner_y == rs[p].y
        new_rabbit == NewRabbit((rs[i].x + partner_x) \div 2,
                                (rs[i].y + partner_y) \div 2,
                                rnd.levels[1], rnd.levels[2], rnd.levels[3])
        rs1 == [rs EXCEPT ![i].is_breeding = FALSE,
                          ![i].breeding_cooldown = BreedingCooldown,
                          ![p].is_breeding = FALSE,
                          ![p].breeding_cooldown = BreedingCooldown,
                          ![p].breeding_partner = None]
        rs2 == [rs1 EXCEPT ![i].breeding_partner = None]
        rs3 == Append(rs2, new_rabbit)
    IN  [rs3 EXCEPT ![i] = ResetWander(rs3[i])]

\* a breeding branch in which a rabbit that finds no partner gives up
BreedStepGivingUp(i, rs, blocks, rnd) ==
    LET closest_partner == FindPartner(i, rs)
        searching == rs[i].breeding_partner = None
        rs1 == IF searching /\ closest_partner # None
               THEN Pair(i, closest_partner, rs)
               ELSE rs
        paired == IF searching /\ closest_partner # None THEN {"paired"} ELSE {}
        p == rs1[i].breeding_partner
    IN  IF p = None
        THEN Outcome([rs1 EXCEPT ![i].is_breeding = FALSE], blocks,
                     {"breed_wait"}, None, None, {})
        ELSE IF ~rs1[p].is_breeding
        THEN Outcome([rs1 EXCEPT ![i].breeding_partner = None], blocks,
                     paired \cup {"partner_lost"}, None, None, {})
        ELSE IF DistLess(rs1[p].x - rs1[i].x, rs1[p].y - rs1[i].y, BreedDistance)
        THEN Outcome(CompleteBreeding(i, p, rs1, rnd), blocks,
                     paired \cup {"bred"}, None, None, {"spawn"})
        ELSE Outcome([rs1 EXCEPT ![i] = move_towards(rs1[i], rs1[p].x, rs1[p].y, blocks)],
                     blocks, paired \cup {"breed_move"}, rs1[p].x, rs1[p].y, {})

\* lines 180-256: a rabbit in breeding mode
BreedStep(i, rs, blocks, rnd) ==
    LET closest_partner == FindPartner(i, rs)
        searching == rs[i].breeding_partner = None
        rs1 == IF searching /\ closest_partner # None
               THEN Pair(i, closest_partner, rs)
               ELSE rs
        paired == IF searching /\ closest_partner # None THEN {"paired"} ELSE {}
        p == rs1[i].breeding_partner
    IN  IF p = None
        THEN Outcome(rs1, blocks, {"breed_wait"}, None, None, {})
        ELSE IF ~rs1[p].is_breeding
        THEN Outcome([rs1 EXCEPT ![i].breeding_partner = None], blocks,
                     paired \cup {"partner_lost"}, None, None, {})
        ELSE IF DistLess(rs1[p].x - rs1[i].x, rs1[p].y - rs1[i].y, BreedDistance)
        THEN Outcome(CompleteBreeding(i, p, rs1, rnd), blocks,
                     paired \cup {"bred"}, None, None, {"spawn"})
        ELSE Outcome([rs1 EXCEPT ![i] = move_towards(rs1[i], rs1[p].x, rs1[p].y, blocks)],
                     blocks, paired \cup {"breed_move"}, rs1[p].x, rs1[p].y, {})

\* the local state of lines 269-412: the rabbit, target_x, target_y,
\* should_seek_facility, and a log of the branches taken
Ctx(r, tx, ty, seek, steps, used) ==
    [r |-> r, target_x |-> tx, target_y |-> ty, seek |-> seek,
     steps |-> steps, used |-> used]

\* a food stage that looks for a Food block first when the rabbit is hungry
FoodStageHungerFirst(c, blocks) ==
    LET r == c.r
        hf == find_nearest_harvestable_farm(blocks, r.x, r.y, FarmSearchDistance)
        fb == find_nearest_food_block(blocks, r.x, r.y, FacilitySearchDistance)
    IN  IF r.food_level < 30 * L /\ fb # 0
        THEN IF is_at_facility(r, blocks[fb])
             THEN [c EXCEPT
                     !.r = ResetWander(
                             start_eating([r EXCEPT !.target_facility = BlockRef(blocks[fb])],
                                          EatDuration)),
                     !.steps = c.steps \cup {"eat_start"}]
             ELSE [c EXCEPT !.r = ResetWander(r),
                            !.target_x = InteractionPoint(blocks[fb]).x,
                            !.target_y = InteractionPoint(blocks[fb]).y,
                            !.seek = TRUE,
                            !.steps = c.steps \cup {"food_seek"}]
        ELSE IF hf # 0
        THEN LET farm == InteractionPoint(blocks[hf])
             IN  IF DistLess(farm.x - r.x, farm.y - r.y, FarmEatDistance)
                 THEN [c EXCEPT
                         !.r = ResetWander(
                                 [start_eating(r, FarmEatDuration) EXCEPT
                                     !.target_facility = BlockRef(blocks[hf])]),
                         !.steps = c.steps \cup {"farm_eat_start"}]
                 ELSE [c EXCEPT !.r = ResetWander(r),
                                !.target_x = farm.x, !.target_y = farm.y,
                                !.seek = TRUE,
                                !.steps = c.steps \cup {"farm_seek"}]
        ELSE c

\* lines 274-319: harvestable farm first, else a Food block when hungry
FoodStage(c, blocks) ==
    LET r == c.r
        hf == find_nearest_harvestable_farm(blocks, r.x, r.y, FarmSearchDistance)
        fb == find_nearest_food_block(blocks, r.x, r.y, FacilitySearchDistance)
    IN  IF hf # 0
        THEN LET farm == InteractionPoint(blocks[hf])
             IN  IF DistLess(farm.x - r.x, farm.y - r.y, FarmEatDistance)
                 THEN [c EXCEPT
                         !.r = ResetWander(
                                 [start_eating(r, FarmEatDuration) EXCEPT
                                     !.target_facility = BlockRef(blocks[hf])]),
                         !.steps = c.steps \cup {"farm_eat_start"}]
                 ELSE [c EXCEPT !.r = ResetWander(r),
                                !.target_x = farm.x, !.target_y = farm.y,
                                !.seek = TRUE,
                                !.steps = c.steps \cup {"farm_seek"}]
        ELSE IF r.food_level < 30 * L /\ fb # 0
        THEN IF is_at_facility(r, blocks[fb])
             THEN [c EXCEPT
                     !.r = ResetWander(
                             start_eating([r EXCEPT !.target_facility = BlockRef(blocks[fb])],
                                          EatDuration)),
                     !.steps = c.steps \cup {"eat_start"}]
             ELSE [c EXCEPT !.r = ResetWander(r),
                            !.target_x = InteractionPoint(blocks[fb]).x,
                            !.target_y = InteractionPoint(blocks[fb]).y,
                            !.seek = TRUE,
                            !.steps = c.steps \cup {"food_seek"}]
        ELSE c

\* a water stage that leaves alone a target the food stage has set
WaterStageAfterFood(c, blocks) ==
    LET r == c.r
        wb == find_nearest_water_block(blocks, r.x, r.y, FacilitySearchDistance)
    IN  IF r.water_level < 30 * L /\ wb # 0
        THEN IF is_at_facility(r, blocks[wb])
             THEN [c EXCEPT
                     !.r = ResetWander(
                             start_drinking([r EXCEPT !.target_facility = BlockRef(blocks[wb])],
                                            DrinkDuration)),
                     !.steps = c.steps \cup {"drink_start"}]
             ELSE IF c.seek THEN [c EXCEPT !.steps = c.steps \cup {"water_seek"}]
             ELSE [c EXCEPT !.r = ResetWander(r),
                            !.target_x = InteractionPoint(blocks[wb]).x,
                            !.target_y = InteractionPoint(blocks[wb]).y,
                            !.seek = TRUE,
                            !.steps = c.steps \cup {"water_seek"}]
        ELSE c

\* lines 321-338: a Water block when thirsty
WaterStage(c, blocks) ==
    LET r == c.r
        wb == find_nearest_water_block(blocks, r.x, r.y, FacilitySearchDistance)
    IN  IF r.water_level < 30 * L /\ wb # 0
        THEN IF is_at_facility(r, blocks[wb])
             THEN [c EXCEPT
                     !.r = ResetWander(
                             start_drinking([r EXCEPT !.target_facility = BlockRef(blocks[wb])],
                                            DrinkDuration)),
                     !.steps = c.steps \cup {"drink_start"}]
             ELSE [c EXCEPT !.r = ResetWander(r),
                            !.target_x = InteractionPoint(blocks[wb]).x,
                            !.target_y = InteractionPoint(blocks[wb]).y,
                            !.seek = TRUE,
                            !.steps = c.steps \cup {"water_seek"}]
        ELSE c

\* lines 341-365: a sleep spot away from the warden when tired
SleepStage(c, w) ==
    LET r == c.r
        sleep_x == Clamp(r.x + TruncDiv((r.x - w.x) * 3, 10),
                         WorldMargin * U, (WorldWidth - WorldMargin) * U)
        sleep_y == Clamp(r.y + TruncDiv((r.y - w.y) * 3, 10),
                         WorldMargin * U, (WorldHeight - WorldMargin) * U)
    IN  IF r.sleep_level < 20 * L /\ ~c.seek
        THEN IF DistLess(sleep_x - r.x, sleep_y - r.y, SleepSpotDistance)
             THEN [c EXCEPT !.r = ResetWander(start_sleeping(r, SleepDuration)),
                            !.steps = c.steps \cup {"sleep_start"}]
             ELSE [c EXCEPT !.r = ResetWander(r),
                            !.target_x = sleep_x, !.target_y = sleep_y,
                            !.steps = c.steps \cup {"sleep_seek"}]
        ELSE c

\* lines 375-381 and 386-392: a new random target, clamped to the world margin
PickTarget(r, rnd) ==
    [r EXCEPT
       !.random_target_x =
           Clamp(r.x + TruncDiv(CosOf(rnd.dir) * rnd.dist * U, 10000),
                 WorldMargin * U, (WorldWidth - WorldMargin) * U),
       !.random_target_y =
           Clamp(r.y + TruncDiv(SinOf(rnd.dir) * rnd.dist * U, 10000),
                 WorldMargin * U, (WorldHeight - WorldMargin) * U)]

\* a wander state machine whose rabbit keeps its target while it waits
WanderStageKeepingTarget(c, blocks, rnd) ==
    LET r == c.r
        timer == r.wait_timer - DeltaTime
        has_target == r.random_target_x # None /\ r.random_target_y # None
        r1 == IF has_target THEN r ELSE PickTarget(r, rnd)
        picked == IF has_target THEN {} ELSE {"wander"}
    IN  IF r.is_waiting
        THEN IF timer <= 0
             THEN [c EXCEPT !.r = PickTarget([r EXCEPT !.wait_timer = timer,
                                                       !.is_waiting = FALSE], rnd),
                            !.steps = c.steps \cup {"wander_pick"},
                            !.used = c.used \cup {"wander"}]
             ELSE [c EXCEPT !.r = [r EXCEPT !.wait_timer = timer],
                            !.steps = c.steps \cup {"wander_wait"}]
        ELSE IF DistLess(r1.random_target_x - r1.x, r1.random_target_y - r1.y,
                         WanderArriveDistance)
        THEN [c EXCEPT !.r = [r1 EXCEPT !.is_waiting = TRUE,
                                        !.wait_timer = rnd.wait],
                       !.steps = c.steps \cup {"wander_arrive"},
                       !.used = c.used \cup picked \cup {"wait"}]
        ELSE [c EXCEPT !.r = move_towards(r1, r1.random_target_x, r1.random_target_y,
                                          blocks),
                       !.steps = c.steps \cup {"wander_move"},
                       !.used = c.used \cup picked]

\* lines 368-408: the wander state machine
WanderStage(c, blocks, rnd) ==
    LET r == c.r
        timer == r.wait_timer - DeltaTime
        has_target == r.random_target_x # None /\ r.random_target_y # None
        r1 == IF has_target THEN r ELSE PickTarget(r, rnd)
        picked == IF has_target THEN {} ELSE {"wander"}
    IN  IF r.is_waiting
        THEN IF timer <= 0
             THEN [c EXCEPT !.r = PickTarget([r EXCEPT !.wait_timer = timer,
                                                       !.is_waiting = FALSE], rnd),
                            !.steps = c.steps \cup {"wander_pick"},
                            !.used = c.used \cup {"wander"}]
             ELSE [c EXCEPT !.r = [r EXCEPT !.wait_timer = timer],
                            !.steps = c.steps \cup {"wander_wait"}]
        ELSE IF DistLess(r1.random_target_x - r1.x, r1.random_target_y - r1.y,
                         WanderArriveDistance)
        THEN [c EXCEPT !.r = [r1 EXCEPT !.is_waiting = TRUE,
                                        !.wait_timer = rnd.wait,
                                        !.random_target_x = None,
                                        !.random_target_y = None],
                       !.steps = c.steps \cup {"wander_arrive"},
                       !.used = c.used \cup picked \cup {"wait"}]
        ELSE [c EXCEPT !.r = move_towards(r1, r1.random_target_x, r1.random_target_y,
                                          blocks),
                       !.steps = c.steps \cup {"wander_move"},
                       !.used = c.used \cup picked]

\* lines 367-412: wander, or move toward the facility or sleep spot
MoveStage(c, blocks, rnd) ==
    IF ~c.seek /\ c.r.sleep_level >= 20 * L
    THEN WanderStage(c, blocks, rnd)
    ELSE IF c.target_x # None /\ c.target_y # None
    THEN [c EXCEPT !.r = move_towards(c.r, c.target_x, c.target_y, blocks),
                   !.steps = c.steps \cup {"seek_move"}]
    ELSE c

\* a gate that does not ask for food
EligibleUnfed(r) ==
    /\ r.health >= 100 * L
    /\ r.breeding_cooldown <= 0
    /\ r.sleep_level >= 20 * L

\* lines 258-267: the breeding eligibility gate
Eligible(r) ==
    /\ r.health >= 100 * L
    /\ r.food_level >= 75 * L
    /\ r.breeding_cooldown <= 0
    /\ r.sleep_level >= 20 * L

\* a decision that lets a rabbit breed again during its cooldown
DecideStepNoCooldown(i, rs, blocks, w, rnd) ==
    LET r == rs[i]
        ready == r.health >= 100 * L /\ r.food_level >= 75 * L /\ r.sleep_level >= 20 * L
        gate == IF ready THEN {"breed"} ELSE {}
        c0 == Ctx(r, None, None, FALSE, {}, gate)
        c4 == MoveStage(SleepStage(WaterStage(FoodStage(c0, blocks), blocks), w),
                        blocks, rnd)
    IN  IF ready /\ rnd.breed
        THEN Outcome([rs EXCEPT ![i] = start_breeding(r)], blocks,
                     {"start_breeding"}, None, None, gate)
        ELSE Outcome([rs EXCEPT ![i] = c4.r], blocks, c4.steps,
                     c4.target_x, c4.target_y, c4.used)

\* lines 258-412: a rabbit that is neither acting nor breeding
DecideStep(i, rs, blocks, w, rnd) ==
    LET r == rs[i]
        gate == IF Eligible(r) THEN {"breed"} ELSE {}
        c0 == Ctx(r, None, None, FALSE, {}, gate)
        c4 == MoveStage(SleepStage(WaterStage(FoodStage(c0, blocks), blocks), w),
                        blocks, rnd)
    IN  IF Eligible(r) /\ rnd.breed
        THEN Outcome([rs EXCEPT ![i] = start_breeding(r)], blocks,
                     {"start_breeding"}, None, None, gate)
        ELSE Outcome([rs EXCEPT ![i] = c4.r], blocks, c4.steps,
                     c4.target_x, c4.target_y, c4.used)

\* lines 137-412: the loop body for the rabbit at index i
RabbitBody(i, rs, blocks, w, rnd) ==
    LET r0 == rs[i]
        r1 == update_needs(r0, DeltaTime)
        rs1 == [rs EXCEPT ![i] = r1]
    IN  IF /\ r0.is_eating
           /\ r0.target_facility # NoBlock
           /\ r0.target_facility.block_type = "farm"
        THEN FarmEatStep(i, rs, blocks)
        ELSE IF r1.is_eating \/ r1.is_drinking \/ r1.is_sleeping
        THEN Outcome(rs1, blocks, {"acting"}, None, None, {})
        ELSE IF r1.is_breeding
        THEN BreedStep(i, rs1, blocks, rnd)
        ELSE DecideStep(i, rs1, blocks, w, rnd)

-----------------------------------------------------------------------------
(* Initial states.                                                         *)
(*                                                                         *)
(* The program starts with the warden, six rabbits and five facility      *)
(* blocks in an otherwise empty world, and every need starts above 50.    *)
(* The situations of interest (a hungry rabbit, a ripe farm, an open door *)
(* with a rabbit in it, rabbits in breeding mode) arise only after        *)
(* thousands of ticks, so the model starts from snapshots of such         *)
(* situations, placed in the top-left corner of the world.  Each snapshot *)
(* is a state the program reaches: blocks are on the 50-unit grid, one    *)
(* per cell, no character overlaps an obstacle, timers are multiples of   *)
(* delta_time, and every flag combination is one the AI loop produces.    *)
(***************************************************************************)

At(x, y) == [x |-> x * U, y |-> y * U]

\* Character.__init__ for the warden
NewWarden(x, y, carrots) ==
    [x |-> x * U, y |-> y * U, size |-> WardenSize, speed |-> WardenSpeed * U,
     carrots |-> carrots]

\* a rabbit standing at (x, y) with the given need levels, waiting in place
Idle(x, y, food, water, sleep) ==
    [NewRabbit(x * U, y * U, food * L, water * L, sleep * L) EXCEPT
        !.is_waiting = TRUE, !.wait_timer = 2000]

Block(id, x, y, t) == NewBlock(id, x * U, y * U, t)
Farm(id, x, y, stage, timer) ==
    [NewBlock(id, x * U, y * U, "farm") EXCEPT
        !.growth_stage = stage, !.growth_timer = timer]
OpenDoor(id, x, y) == [NewBlock(id, x * U, y * U, "door") EXCEPT !.is_open = TRUE]

\* a snapshot of the world with no movement key held
Scene(w, rs, blocks) ==
    [warden |-> w, rabbits |-> rs, blocks |-> blocks, keys |-> {},
     items |-> << >>, held |-> None, bullets |-> << >>, nextId |-> Len(blocks) + 1]

\* Item.__init__ and Character.equip_item: an item lying in the world, or held
Item(x, y, held) == [x |-> x * U, y |-> y * U, held |-> held]

\* Bullet.__init__, flying in direction angle * 45 degrees
Bullet(x, y, angle) == [x |-> x * U, y |-> y * U, angle |-> angle, active |-> TRUE]

\* one rabbit waits in breeding mode beside a wall block; a second, eligible
\* rabbit stands within breeding distance of it
BreedScene ==
    Scene(NewWarden(300, 300, 2),
          <<[Idle(90, 75, 80, 80, 80) EXCEPT !.is_breeding = TRUE, !.is_waiting = FALSE],
            Idle(75, 90, 80, 80, 80)>>,
          <<Block(1, 100, 100, "wall")>>)

\* two rabbits in breeding mode, paired and walking toward each other
PairedScene ==
    Scene(NewWarden(300, 300, 2),
          <<[Idle(40, 150, 80, 80, 80) EXCEPT
                !.is_breeding = TRUE, !.is_waiting = FALSE, !.breeding_partner = 2],
            [Idle(71, 150, 90, 80, 80) EXCEPT
                !.is_breeding = TRUE, !.is_waiting = FALSE, !.breeding_partner = 1]>>,
          <<Block(1, 100, 100, "fence")>>)

\* three unpaired rabbits in breeding mode in a row, the player holding D;
\* the warden walks east holding one item, the item it dropped for it under
\* its feet, and a bullet flies south
TrioScene ==
    [keys |-> {"D"},
     items |-> <<Item(480, 400, TRUE), Item(500, 400, FALSE)>>,
     held |-> 1,
     bullets |-> <<Bullet(450, 300, 2)>>] @@
    Scene(NewWarden(500, 400, 0),
          <<[Idle(40, 150, 80, 80, 80) EXCEPT !.is_breeding = TRUE, !.is_waiting = FALSE],
            [Idle(100, 150, 80, 80, 80) EXCEPT !.is_breeding = TRUE, !.is_waiting = FALSE],
            [Idle(140, 150, 80, 80, 80) EXCEPT !.is_breeding = TRUE, !.is_waiting = FALSE]>>,
          << >>)

\* a farm about to ripen between a thirsty, tired rabbit and a water block,
\* with the warden close by; farther off a well-fed thirsty rabbit, and a
\* hungry rabbit standing at a Food block
RipeningScene ==
    Scene(NewWarden(100, 120, 1),
          <<Idle(100, 75, 60, 29, 19),
            NewRabbit(160 * U, 140 * U, 80 * L, 25 * L, 80 * L),
            NewRabbit(60 * U, 160 * U, 20 * L, 80 * L, 80 * L)>>,
          <<Farm(1, 50, 50, 2, 6592), Block(2, 100, 50, "water"),
            Farm(3, 0, 100, 1, 3296), Block(4, 50, 150, "food")>>)

\* a ripe farm with two rabbits finishing their meals on it, the hungrier
\* one first, and another rabbit beside it
EatingScene ==
    Scene(NewWarden(80, 120, 1),
          <<[NewRabbit(70 * U, 75 * U, 75 * L, 60 * L, 60 * L) EXCEPT
                !.is_eating = TRUE, !.action_timer = 2 * DeltaTime,
                !.target_facility = BlockRef(Farm(1, 50, 50, 3, 6624))],
            Idle(80, 70, 28, 60, 60),
            [NewRabbit(60 * U, 80 * U, 50 * L, 60 * L, 60 * L) EXCEPT
                !.is_eating = TRUE, !.action_timer = DeltaTime,
                !.target_facility = BlockRef(Farm(1, 50, 50, 3, 6624))]>>,
          <<Farm(1, 50, 50, 3, 6624), Farm(2, 0, 100, 0, 61 * DeltaTime)>>)

\* a hungry rabbit 40 units from the centre of a Food block, a second Food
\* block farther away, and a Water block; a rabbit that went to sleep 312
\* ticks ago, rested and about to wake hungry beside the Food block; a
\* rabbit finishing a drink at the Water block; a hungry and thirsty rabbit
\* away from both blocks; the warden, holding one item
\* and standing on the item it dropped for it, beside a closed door with an
\* item and a bullet in its cell
HungryScene ==
    [items |-> <<Item(140, 75, TRUE), Item(125, 60, FALSE), Item(120, 20, FALSE)>>,
     held |-> 1,
     bullets |-> <<Bullet(110, 25, 0)>>] @@
    Scene(NewWarden(125, 60, 0),
          <<Idle(135, 175, 20, 80, 80),
            [NewRabbit(175 * U, 180 * U, 29 * L, 70 * L, 100 * L) EXCEPT
                !.is_sleeping = TRUE, !.action_timer = SleepDuration - 312 * DeltaTime],
            [NewRabbit(170 * U, 80 * U, 29 * L, 40 * L, 80 * L) EXCEPT
                !.is_drinking = TRUE, !.action_timer = DeltaTime,
                !.target_facility = BlockRef(Block(3, 150, 50, "water"))],
            NewRabbit(110 * U, 120 * U, 25 * L, 25 * L, 80 * L)>>,
          <<Block(1, 0, 150, "food"), Block(2, 150, 150, "food"),
            Block(3, 150, 50, "water"), Block(4, 100, 0, "door")>>)

\* a hungry rabbit diagonally across the corner of a wall from a Food block,
\* a thirsty rabbit against the east side of the wall with a Water block
\* to the south-west, a hungry and thirsty rabbit at the Water block, and a
\* rabbit two ticks from the end of its meal at the Food block
CornerScene ==
    Scene(NewWarden(300, 300, 1),
          <<Idle(75, 75, 20, 80, 80), Idle(175, 125, 80, 20, 80),
            Idle(30, 170, 20, 20, 80),
            [NewRabbit(180 * U, 180 * U, 60 * L, 60 * L, 60 * L) EXCEPT
                !.is_eating = TRUE, !.action_timer = 2 * DeltaTime,
                !.target_facility = BlockRef(Block(2, 150, 150, "food"))]>>,
          <<Block(1, 100, 100, "wall"), Block(2, 150, 150, "food"),
            Block(3, 0, 150, "water")>>)

\* a rabbit standing in an open doorway at the west edge of the world, the
\* warden within reach of the door, and walls around it; an item lies in the
\* doorway and a bullet flies west through it
DoorScene(walls) ==
    [items |-> <<Item(30, 80, FALSE)>>, bullets |-> <<Bullet(15, 70, 4)>>] @@
    Scene(NewWarden(25, 40, 0),
          <<Idle(25, 75, 60, 60, 60)>>,
          <<OpenDoor(1, 0, 50)>> \o walls)

\* the cells the free-cell search looks at around a door, as offsets in cells
SearchedCells ==
    <<<<1, 0>>, <<1, 1>>, <<0, 1>>, <<-1, 1>>, <<-1, 0>>, <<-1, -1>>, <<0, -1>>,
      <<1, -1>>, <<2, 0>>, <<0, 2>>, <<-2, 0>>, <<0, -2>>, <<3, 0>>, <<2, 2>>,
      <<0, 3>>, <<-2, 2>>, <<-3, 0>>, <<-2, -2>>, <<0, -3>>, <<2, -2>>>>

\* an open door at (200, 200) with a wall on every cell the search looks at;
\* in the doorway a rabbit at the centre, the warden and an item off the
\* centre, and a bullet; a bullet whose rect crosses the doorway's west edge
\* and one whose rect touches it from outside; far from it a well-fed rabbit whose breeding
\* cooldown has two ticks left
WalledDoorScene ==
    [items |-> <<Item(230, 240, FALSE)>>,
     bullets |-> <<Bullet(210, 210, 0), Bullet(199, 240, 6), Bullet(198, 225, 3)>>] @@
    Scene(NewWarden(230, 215, 0),
          <<Idle(225, 225, 60, 60, 60),
            [Idle(500, 500, 80, 80, 80) EXCEPT !.breeding_cooldown = 2 * DeltaTime]>>,
          <<OpenDoor(1, 200, 200)>> \o
          [n \in 1..Len(SearchedCells) |->
              Block(n + 1, 200 + BlockSize * SearchedCells[n][1],
                    200 + BlockSize * SearchedCells[n][2], "wall")])

\* a rabbit that began a meal on a ripe farm at (50, 50) while standing in
\* the open doorway next to it; the warden has since closed the door, which
\* moved the rabbit two cells east, and removed the farm
PushedEaterScene ==
    [nextId |-> 3] @@
    Scene(NewWarden(300, 300, 1),
          <<[NewRabbit(175 * U, 75 * U, 50 * L, 60 * L, 60 * L) EXCEPT
                !.is_eating = TRUE, !.action_timer = DeltaTime,
                !.target_facility = BlockRef(Farm(1, 50, 50, 3, 6624))]>>,
          <<Block(2, 100, 50, "door")>>)

\* two wandering rabbits that bred a while ago: one beside the east margin
\* whose wait ends in the first tick, one walking east to a target 15 units
\* away
WanderScene ==
    Scene(NewWarden(1000, 1200, 0),
          <<[Idle(1940, 1000, 80, 80, 80) EXCEPT
                !.wait_timer = DeltaTime, !.breeding_cooldown = 20000],
            [NewRabbit(1000 * U, 1000 * U, 80 * L, 80 * L, 80 * L) EXCEPT
                !.random_target_x = 1015 * U, !.random_target_y = 1000 * U,
                !.breeding_cooldown = 20000]>>,
          << >>)

Scenes ==
    {BreedScene, PairedScene, TrioScene, RipeningScene, EatingScene, HungryScene,
     PushedEaterScene, CornerScene, WalledDoorScene, WanderScene,
     DoorScene(<< >>),
     DoorScene(<<Block(2, 50, 50, "wall")>>),
     DoorScene(<<Block(2, 50, 50, "wall"), Block(3, 50, 100, "fence")>>),
     DoorScene(<<Block(2, 50, 50, "wall"), Block(3, 50, 100, "fence"),
                 Block(4, 0, 100, "fence")>>)}

NoOp == [op |-> "none", x |-> 0, y |-> 0, block_type |-> "none", placer |-> FALSE,
         ret |-> FALSE]
NoTrace == [rabbit |-> 0, steps |-> {}, target_x |-> None, target_y |-> None]

Init ==
    \E s \in Scenes :
        /\ warden = s.warden
        /\ rabbits = s.rabbits
        /\ placed_blocks = s.blocks
        /\ nextId = s.nextId
        /\ keys_pressed = s.keys
        /\ pc = "idle"
        /\ idx = 0
        /\ ticks = 0
        /\ ops = 0
        /\ lastOp = NoOp
        /\ trace = NoTrace
        /\ items = s.items
        /\ held_item = s.held
        /\ bullets = s.bullets
        /\ camera = camera_follow(s.warden)
        /\ fed = << >>

-----------------------------------------------------------------------------
(* Player operations (GameView.mousePressEvent, keyPressEvent) *)

\* world points the player clicks, sampled
ClickPoints == {At(60, 60), At(10, 110)}

\* carrots_gained = random.randint(1, 5), sampled
CarrotGains == {1, 5}

\* left click while holding a block item: world.place_block(x, y, type, warden)
PlaceBlock ==
    /\ pc = "idle"
    /\ ops < MaxOps
    /\ held_item = None
    /\ \E p \in ClickPoints, t \in BlockTypes :
          LET res == place_block(placed_blocks, Characters(warden, rabbits),
                                 warden.carrots, TRUE, p.x, p.y, t, nextId)
          IN  /\ placed_blocks' = res.blocks
              /\ warden' = [warden EXCEPT !.carrots = res.carrots]
              /\ nextId' = IF res.ret THEN nextId + 1 ELSE nextId
              /\ lastOp' = [op |-> "place", x |-> p.x, y |-> p.y, block_type |-> t,
                            placer |-> TRUE, ret |-> res.ret]
    /\ ops' = ops + 1
    /\ UNCHANGED <<rabbits, keys_pressed, pc, idx, ticks, trace, items, held_item,
                   bullets, camera>>
    /\ UNCHANGED fed

\* right click: world.remove_block(x, y)
RemoveBlock ==
    /\ pc = "idle"
    /\ ops < MaxOps
    /\ \E p \in ClickPoints :
          LET res == remove_block(placed_blocks, p.x, p.y)
          IN  /\ placed_blocks' = res.blocks
              /\ lastOp' = [op |-> "remove", x |-> p.x, y |-> p.y,
                            block_type |-> "none", placer |-> FALSE, ret |-> res.ret]
    /\ ops' = ops + 1
    /\ UNCHANGED <<warden, rabbits, nextId, keys_pressed, pc, idx, ticks, trace,
                   items, held_item, bullets, camera>>
    /\ UNCHANGED fed

\* space bar: harvest the nearby ripe farm, else toggle the nearby door
PressSpace ==
    /\ pc = "idle"
    /\ ops < MaxOps
    /\ LET f == get_nearby_harvestable_farm(placed_blocks, warden.x, warden.y,
                                            HarvestDistance)
           d == get_nearby_door(placed_blocks, warden.x, warden.y, DoorDistance)
       IN  IF f # 0
           THEN \E carrots_gained \in CarrotGains :
                   /\ placed_blocks' = [placed_blocks EXCEPT ![f] = harvest(@).block]
                   /\ warden' = [warden EXCEPT !.carrots = @ + carrots_gained]
                   /\ rabbits' = rabbits
                   /\ UNCHANGED <<items, bullets>>
                   /\ lastOp' = [op |-> "harvest", x |-> placed_blocks[f].x,
                                 y |-> placed_blocks[f].y, block_type |-> "farm",
                                 placer |-> TRUE, ret |-> harvest(placed_blocks[f]).ret]
           ELSE IF d # 0
           THEN LET res == toggle_door(placed_blocks, warden, rabbits,
                                       placed_blocks[d].x, placed_blocks[d].y)
                    obj == toggle_door_objects(placed_blocks, items, bullets,
                                               placed_blocks[d].x, placed_blocks[d].y)
                IN  /\ placed_blocks' = res.blocks
                    /\ warden' = res.warden
                    /\ rabbits' = res.rabbits
                    /\ items' = obj.items
                    /\ bullets' = obj.bullets
                    /\ lastOp' = [op |-> "toggle", x |-> placed_blocks[d].x,
                                  y |-> placed_blocks[d].y, block_type |-> "door",
                                  placer |-> FALSE, ret |-> res.ret]
           ELSE /\ UNCHANGED <<placed_blocks, warden, rabbits, items, bullets>>
                /\ lastOp' = [NoOp EXCEPT !.op = "space"]
    /\ ops' = ops + 1
    /\ UNCHANGED <<nextId, keys_pressed, pc, idx, ticks, trace, held_item, camera>>
    /\ UNCHANGED fed

-----------------------------------------------------------------------------
(* GameView.update_game, one timer tick *)

\* the movement keys the player uses, sampled
Keys == {"D", "S"}

\* keyPressEvent for a movement key
KeyPress ==
    /\ pc = "idle"
    /\ ops < MaxOps
    /\ \E k \in Keys \ keys_pressed :
          /\ keys_pressed' = keys_pressed \cup {k}
          /\ lastOp' = [NoOp EXCEPT !.op = "press"]
    /\ ops' = ops + 1
    /\ UNCHANGED <<warden, rabbits, placed_blocks, nextId, pc, idx, ticks, trace,
                   items, held_item, bullets, camera>>
    /\ UNCHANGED fed

\* Shotgun.use: the bullet leaves the muzzle, length + 8 + 4 from the holder
MuzzleOffset == 42

\* the aim angle of the warden the model fires at, in steps of 45 degrees:
\* west
AimAngles == {4}

\* Shotgun.use(holder): a bullet at the muzzle, flying along the aim angle
shotgun_use(holder, aim) ==
    [x |-> holder.x + TruncDiv(CosOf(aim) * MuzzleOffset * U, 10000),
     y |-> holder.y + TruncDiv(SinOf(aim) * MuzzleOffset * U, 10000),
     angle |-> aim, active |-> TRUE]

\* left click while the hotbar's shotgun is in hand: the bullet of
\* warden.use_item() joins world.bullets
Shoot ==
    /\ pc = "idle"
    /\ ops < MaxOps
    /\ held_item = None
    /\ \E aim \in AimAngles :
          bullets' = Append(bullets, shotgun_use(warden, aim))
    /\ lastOp' = [NoOp EXCEPT !.op = "shoot"]
    /\ ops' = ops + 1
    /\ UNCHANGED <<warden, rabbits, placed_blocks, nextId, keys_pressed, pc, idx, ticks,
                   trace, items, held_item, camera>>
    /\ UNCHANGED fed

\* keyReleaseEvent
KeyRelease ==
    /\ pc = "idle"
    /\ ops < MaxOps
    /\ \E k \in keys_pressed :
          /\ keys_pressed' = keys_pressed \ {k}
          /\ lastOp' = [NoOp EXCEPT !.op = "release"]
    /\ ops' = ops + 1
    /\ UNCHANGED <<warden, rabbits, placed_blocks, nextId, pc, idx, ticks, trace,
                   items, held_item, bullets, camera>>
    /\ UNCHANGED fed

\* lines 98-118: the warden's displacement from the pressed keys
WardenMove(w, keys, blocks) ==
    LET dy0 == IF "W" \in keys THEN -w.speed ELSE 0
        dy == IF "S" \in keys THEN w.speed ELSE dy0
        dx0 == IF "A" \in keys THEN -w.speed ELSE 0
        dx == IF "D" \in keys THEN w.speed ELSE dx0
        w1 == IF dx # 0 /\ ~check_collision(w, dx, 0, blocks)
              THEN [w EXCEPT !.x = w.x + dx] ELSE w
    IN  IF dy # 0 /\ ~check_collision(w1, 0, dy, blocks)
        THEN [w1 EXCEPT !.y = w1.y + dy] ELSE w1

\* lines 91-134: warden movement, then the bullets, then farm growth; the AI
\* loop follows
TickBegin ==
    /\ pc = "idle"
    /\ ticks < MaxTicks
    /\ warden' = WardenMove(warden, keys_pressed, placed_blocks)
    /\ bullets' = update_bullets(bullets)
    /\ placed_blocks' = update_farms(placed_blocks, DeltaTime)
    /\ pc' = "ai"
    /\ idx' = 1
    /\ trace' = NoTrace
    /\ UNCHANGED <<rabbits, nextId, keys_pressed, ticks, ops, lastOp, items, held_item,
                   camera>>
    /\ UNCHANGED fed

\* lines 136-412: one iteration of the loop over world.characters; a rabbit
\* appended by the iteration is visited by a later one
RabbitStep ==
    /\ pc = "ai"
    /\ idx <= Len(rabbits)
    /\ LET probe == RabbitBody(idx, rabbits, placed_blocks, warden, NoDraw)
       IN  \E rnd \in Draws(probe.used) :
              LET out == RabbitBody(idx, rabbits, placed_blocks, warden, rnd)
              IN  /\ Len(out.rabbits) <= MaxRabbits
                  /\ rabbits' = out.rabbits
                  /\ placed_blocks' = out.blocks
                  /\ trace' = [rabbit |-> idx, steps |-> out.steps,
                               target_x |-> out.target_x, target_y |-> out.target_y]
                  /\ fed' = IF "farm_eat_done" \in out.steps
                            THEN Append(fed, [rabbit |-> idx,
                                              farm |-> rabbits[idx].target_facility.id])
                            ELSE fed
    /\ idx' = idx + 1
    /\ UNCHANGED <<warden, nextId, keys_pressed, pc, ticks, ops, lastOp, items,
                   held_item, bullets, camera>>

\* an item pickup check that does not wait for the loop to end
ItemPickupInsideLoop ==
    /\ pc = "ai"
    /\ LET res == item_pickup(items, held_item, warden)
       IN  /\ items' = res.items
           /\ held_item' = res.held_item
    /\ pc' = "camera"
    /\ UNCHANGED <<warden, rabbits, placed_blocks, nextId, keys_pressed, idx, ticks,
                   ops, lastOp, trace, bullets, camera>>
    /\ UNCHANGED fed

\* lines 414-430: the item pickup check, after the loop over the characters
ItemPickup ==
    /\ pc = "ai"
    /\ idx > Len(rabbits)
    /\ LET res == item_pickup(items, held_item, warden)
       IN  /\ items' = res.items
           /\ held_item' = res.held_item
    /\ pc' = "camera"
    /\ UNCHANGED <<warden, rabbits, placed_blocks, nextId, keys_pressed, idx, ticks,
                   ops, lastOp, trace, bullets, camera>>
    /\ UNCHANGED fed

\* lines 432-443: the camera follows the warden; the tick is over
TickEnd ==
    /\ pc = "camera"
    /\ camera' = camera_follow(warden)
    /\ pc' = "idle"
    /\ idx' = 0
    /\ ticks' = ticks + 1
    /\ UNCHANGED <<warden, rabbits, placed_blocks, nextId, keys_pressed, ops, lastOp,
                   trace, items, held_item, bullets>>
    /\ UNCHANGED fed

Next ==
    \/ PlaceBlock \/ RemoveBlock \/ PressSpace \/ KeyPress \/ KeyRelease \/ Shoot
    \/ TickBegin \/ RabbitStep \/ ItemPickup \/ TickEnd

Spec == Init /\ [][Next]_vars

\* the timer keeps firing update_game and the loop over the rabbits always
\* finishes; the player may stop acting
FairSpec ==
    /\ Spec
    /\ WF_vars(TickBegin) /\ WF_vars(ItemPickup) /\ WF_vars(TickEnd)
    /\ []<>(pc = "ai" => idx > Len(rabbits))

-----------------------------------------------------------------------------
(* Properties *)

Rabbits == 1..Len(rabbits)

\* the step just taken is a place_block call
PlaceStep == ops' = ops + 1 /\ lastOp'.op = "place"
\* the step just taken is the warden harvesting a farm
HarvestStep == ops' = ops + 1 /\ lastOp'.op = "harvest"
\* the step just taken is the AI loop body of the rabbit at idx
AIStep == pc = "ai" /\ idx' = idx + 1

LevelOk(v) == 0 <= v /\ v <= 100 * L

\* C1: in every reachable state every rabbit's food_level, water_level and
\* sleep_level lie in [0, 100], also after the +30 farm-eat bonus and for
\* newly spawned rabbits.
NeedsInRange ==
    \A i \in Rabbits :
        /\ LevelOk(rabbits[i].food_level)
        /\ LevelOk(rabbits[i].water_level)
        /\ LevelOk(rabbits[i].sleep_level)

\* a rabbit has just finished a farm meal whose bonus was cut off at 100
NeedsInRangeWitness ==
    /\ "farm_eat_done" \in trace.steps
    /\ rabbits[trace.rabbit].food_level = 100 * L

ActionCount(r) ==
    (IF r.is_eating THEN 1 ELSE 0) + (IF r.is_drinking THEN 1 ELSE 0)
    + (IF r.is_sleeping THEN 1 ELSE 0)

\* C2: for every rabbit, in every reachable state, at most one of is_eating,
\* is_drinking, is_sleeping is true, also when several decision steps fire
\* in one tick.
ActionsExclusive == \A i \in Rabbits : ActionCount(rabbits[i]) <= 1

\* a rabbit started a farm meal, then a drink, then sleep within one loop body
ActionsExclusiveWitness ==
    /\ {"farm_eat_start", "drink_start", "sleep_start"} \subseteq trace.steps
    /\ rabbits[trace.rabbit].is_sleeping

\* a has b as breeding partner, both are in the world in breeding mode
Courting(a, b) ==
    /\ a \in Rabbits /\ b \in Rabbits
    /\ rabbits[a].breeding_partner = b
    /\ rabbits[a].is_breeding /\ rabbits[b].is_breeding

\* C3: whenever rabbit A has breeding_partner B and both are in the world in
\* breeding mode, eventually B has breeding_partner A.
PairingSymmetric ==
    \A p \in {q \in (1..MaxRabbits) \X (1..MaxRabbits) : q[1] # q[2]} :
        Courting(p[1], p[2])
            ~> (p[2] \in Rabbits /\ rabbits[p[2]].breeding_partner = p[1])

\* two rabbits in breeding mode have been paired by the search of one of them
PairingSymmetricWitness ==
    /\ "paired" \in trace.steps
    /\ \E a, b \in Rabbits : a # b /\ Courting(a, b) /\ Courting(b, a)

InsideWorld(c) ==
    /\ CharRect(c).x >= 0 /\ CharRect(c).x + CharRect(c).w <= WorldWidth * U
    /\ CharRect(c).y >= 0 /\ CharRect(c).y + CharRect(c).h <= WorldHeight * U

ClearOfObstacles(c, blocks) ==
    /\ \A i \in 1..Len(Walls) : ~Intersects(CharRect(c), Walls[i])
    /\ \A i \in 1..Len(blocks) :
          blocks[i].block_type \in {"wall", "fence"}
          \/ (blocks[i].block_type = "door" /\ ~blocks[i].is_open)
          => ~Intersects(CharRect(c), BlockRect(blocks[i]))

\* C4: in every reachable state no character's bounding box intersects a
\* wall or a Wall, Fence or closed Door block, and none leaves the world.
CollisionContainment ==
    LET chars == Characters(warden, rabbits)
    IN  \A i \in 1..Len(chars) :
            InsideWorld(chars[i]) /\ ClearOfObstacles(chars[i], placed_blocks)

\* no two placed blocks overlap
BlocksDisjoint ==
    \A i, j \in 1..Len(placed_blocks) :
        i # j => ~Intersects(BlockRect(placed_blocks[i]), BlockRect(placed_blocks[j]))

\* a successful placement adds a block that no character stands on
PlacedClear ==
    PlaceStep /\ lastOp'.ret =>
        LET chars == Characters(warden', rabbits')
            b == placed_blocks'[Len(placed_blocks')]
        IN  /\ Len(placed_blocks') = Len(placed_blocks) + 1
            /\ b.x = Snap(lastOp'.x) /\ b.y = Snap(lastOp'.y)
            /\ \A i \in 1..Len(chars) : ~Intersects(BlockRect(b), CharRect(chars[i]))

\* C5: no two blocks in placed_blocks ever overlap (one block per grid
\* cell), and a successful place_block never creates a block whose rect
\* intersects a character's bounding box.
PlacementExclusive == []BlocksDisjoint /\ [][PlacedClear]_vars

\* a block was placed next to existing ones
PlacementExclusiveWitness ==
    lastOp.op = "place" /\ lastOp.ret /\ Len(placed_blocks) >= 2

\* C6: a place_block that fails leaves placed_blocks and the carrot count
\* unchanged, for every block type; the carrot count drops by exactly 1
\* only when a Farm placement succeeds.
PlaceFailureHarmless ==
    [][PlaceStep =>
          /\ ~lastOp'.ret =>
                placed_blocks' = placed_blocks /\ warden'.carrots = warden.carrots
          /\ warden'.carrots # warden.carrots =>
                /\ lastOp'.block_type = "farm" /\ lastOp'.ret
                /\ warden'.carrots = warden.carrots - 1]_vars

\* C7: place_block of a Farm with fewer than 1 carrot, or with no placer,
\* returns False, creates no block and leaves the carrot count unchanged,
\* whether or not the target cell is free.
FarmNeedsCarrot ==
    /\ [](\A p \in ClickPoints :
            LET chars == Characters(warden, rabbits)
                res == place_block(placed_blocks, chars, warden.carrots, FALSE,
                                   p.x, p.y, "farm", nextId)
            IN  /\ ~res.ret
                /\ res.blocks = placed_blocks
                /\ res.carrots = warden.carrots)
    /\ [][PlaceStep /\ lastOp'.block_type = "farm" /\ warden.carrots < 1 =>
            /\ ~lastOp'.ret
            /\ placed_blocks' = placed_blocks
            /\ warden'.carrots = warden.carrots]_vars

\* a Farm placement on a free cell was refused for lack of carrots
FarmNeedsCarrotWitness ==
    /\ lastOp.op = "place" /\ lastOp.block_type = "farm" /\ ~lastOp.ret
    /\ warden.carrots = 0
    /\ ops = 1 /\ ticks = 0
    /\ LET chars == Characters(warden, rabbits)
           cell == Rect(Snap(lastOp.x), Snap(lastOp.y), BlockSize * U, BlockSize * U)
       IN  /\ \A i \in 1..Len(placed_blocks) :
                 ~Intersects(cell, BlockRect(placed_blocks[i]))
           /\ \A i \in 1..Len(chars) : ~Intersects(cell, CharRect(chars[i]))

\* C8: a Farm's growth_stage stays in {0,1,2,3} and never decreases under
\* update_growth; it returns to 0 only through harvest().
FarmGrowthMonotone ==
    [][\A i \in 1..Len(placed_blocks), j \in 1..Len(placed_blocks') :
          /\ placed_blocks[i].id = placed_blocks'[j].id
          /\ placed_blocks[i].block_type = "farm"
          => /\ placed_blocks'[j].growth_stage \in 0..3
             /\ placed_blocks'[j].growth_stage < placed_blocks[i].growth_stage
                => HarvestStep /\ placed_blocks'[j].growth_stage = 0]_vars

\* update_growth has just moved one farm to stage 3 and another to stage 2
FarmGrowthMonotoneWitness ==
    /\ pc = "ai"
    /\ \E i \in 1..Len(placed_blocks) :
          /\ placed_blocks[i].growth_stage = 3
          /\ placed_blocks[i].growth_timer = 6592 + DeltaTime
    /\ \E i \in 1..Len(placed_blocks) :
          /\ placed_blocks[i].growth_stage = 2
          /\ placed_blocks[i].growth_timer = 3296 + DeltaTime

\* what a completed pairing of i with p leaves
Bred(i, p) ==
    LET child == rabbits'[Len(rabbits')]
    IN  /\ p \in Rabbits /\ p # i
        /\ rabbits[p].is_breeding /\ rabbits[p].breeding_partner \in {None, i}
        /\ rabbits[i].is_breeding /\ rabbits[i].breeding_partner \in {None, p}
        /\ rabbits[i].breeding_cooldown <= 0 /\ rabbits[p].breeding_cooldown <= 0
        /\ DistLess(rabbits[p].x - rabbits[i].x, rabbits[p].y - rabbits[i].y,
                    BreedDistance)
        /\ Len(rabbits') = Len(rabbits) + 1
        /\ child.x = (rabbits[i].x + rabbits[p].x) \div 2
        /\ child.y = (rabbits[i].y + rabbits[p].y) \div 2
        /\ child.health = 100 * L
        /\ child.food_level \in (50 * L)..(100 * L)
        /\ child.water_level \in (50 * L)..(100 * L)
        /\ child.sleep_level \in (50 * L)..(100 * L)
        /\ ~child.is_breeding /\ child.breeding_partner = None
        /\ \A k \in {i, p} :
              /\ ~rabbits'[k].is_breeding
              /\ rabbits'[k].breeding_partner = None
              /\ rabbits'[k].breeding_cooldown = BreedingCooldown
              /\ rabbits'[k].x = rabbits[k].x /\ rabbits'[k].y = rabbits[k].y

\* C9: when two paired breeding rabbits are within 30 units, the pairing
\* completes exactly once: one new rabbit appears at the parents' midpoint
\* with health 100 and needs in [50,100], both parents leave breeding mode
\* with partner cleared and cooldown 30.0, and no other step adds a rabbit
\* (so the second parent, no longer breeding, spawns nothing).
BreedingCompletesOnce ==
    [][/\ AIStep /\ "bred" \in trace'.steps => \E p \in Rabbits : Bred(idx, p)
       /\ ~(AIStep /\ "bred" \in trace'.steps) => Len(rabbits') = Len(rabbits)
       /\ /\ AIStep
          /\ rabbits[idx].is_breeding
          /\ rabbits[idx].breeding_partner # None
          /\ rabbits[rabbits[idx].breeding_partner].is_breeding
          /\ rabbits[rabbits[idx].breeding_partner].breeding_partner = idx
          /\ DistLess(rabbits[rabbits[idx].breeding_partner].x - rabbits[idx].x,
                      rabbits[rabbits[idx].breeding_partner].y - rabbits[idx].y,
                      BreedDistance)
          => "bred" \in trace'.steps]_vars

\* a pairing has just completed and the child is in the world
BreedingCompletesOnceWitness ==
    /\ "bred" \in trace.steps
    /\ Len(rabbits) = 3
    /\ rabbits[1].breeding_cooldown = BreedingCooldown
    /\ rabbits[2].breeding_cooldown = BreedingCooldown

\* grid cells around a door that lie inside the world
NearbyCells(door) ==
    {c \in [x : {door.x + k * BlockSize * U : k \in -4..4},
            y : {door.y + k * BlockSize * U : k \in -4..4}] :
        /\ c # [x |-> door.x, y |-> door.y]
        /\ c.x >= 0 /\ c.x + BlockSize * U <= WorldWidth * U
        /\ c.y >= 0 /\ c.y + BlockSize * U <= WorldHeight * U}

CellDist2(door, c) == (c.x - door.x) * (c.x - door.x) + (c.y - door.y) * (c.y - door.y)

\* c, which stood in the doorway, now stands at the centre of the nearest
\* free cell within 200 units, free of collisions
RelocatedWell(before, after, door, blocks) ==
    Intersects(CharRect(before), BlockRect(door)) =>
        LET cell == [x |-> after.x - (BlockSize \div 2) * U,
                     y |-> after.y - (BlockSize \div 2) * U]
        IN  /\ cell.x = Snap(cell.x) /\ cell.y = Snap(cell.y)
            /\ CellFree(door, cell, blocks)
            /\ CellDist2(door, cell) <= (MaxSearchRadius * U) * (MaxSearchRadius * U)
            /\ \A c \in NearbyCells(door) :
                  CellFree(door, c, blocks) => CellDist2(door, cell) <= CellDist2(door, c)
            /\ ~check_collision(after, 0, 0, blocks)

\* the step just taken closed the door at index d
ClosingStep(d) ==
    /\ ops' = ops + 1 /\ lastOp'.op = "toggle" /\ lastOp'.ret
    /\ placed_blocks[d].block_type = "door"
    /\ placed_blocks[d].x = lastOp'.x /\ placed_blocks[d].y = lastOp'.y
    /\ placed_blocks[d].is_open

\* C10: when toggle_door closes a door whose cell a character intersects,
\* the character is moved to the nearest free grid cell within 200 units
\* of the door and is collision-free there.
PushOutNearestFree ==
    [][\A d \in 1..Len(placed_blocks) :
          ClosingStep(d) =>
              /\ RelocatedWell(warden, warden', placed_blocks'[d], placed_blocks')
              /\ \A i \in Rabbits :
                    RelocatedWell(rabbits[i], rabbits'[i], placed_blocks'[d],
                                  placed_blocks')]_vars

\* the rabbit the loop body just taken was for, before and after it
Before == rabbits[idx]
After == rabbits'[idx]

Acting(r) == r.is_eating \/ r.is_drinking \/ r.is_sleeping

Within(b, r, d) == Dist2(b, r.x, r.y) < (d * U) * (d * U)

\* the blocks of a kind within search distance of r, and the nearest of them
FoodNear(r) ==
    {i \in 1..Len(placed_blocks) :
        placed_blocks[i].block_type = "food"
        /\ Within(placed_blocks[i], r, FacilitySearchDistance)}

RipeFarmNear(r) ==
    {i \in 1..Len(placed_blocks) :
        /\ placed_blocks[i].block_type = "farm"
        /\ placed_blocks[i].growth_stage = 3
        /\ Within(placed_blocks[i], r, FarmSearchDistance)}

Nearest(S, r) ==
    {i \in S : \A j \in S :
        Dist2(placed_blocks[i], r.x, r.y) <= Dist2(placed_blocks[j], r.x, r.y)}

ToTarget2(r, tx, ty) == (tx - r.x) * (tx - r.x) + (ty - r.y) * (ty - r.y)

WanderSteps == {"wander_pick", "wander_wait", "wander_arrive", "wander_move"}

\* a hungry, not thirsty rabbit with no ripe farm around and a Food block in
\* search distance but out of reach (levels as the decision sees them,
\* after the tick's decay)
HungryAwayFromFood ==
    /\ AIStep
    /\ ~Acting(Before) /\ ~Before.is_breeding
    /\ After.food_level < 30 * L /\ After.water_level >= 30 * L
    /\ RipeFarmNear(Before) = {}
    /\ FoodNear(Before) # {}
    /\ \A i \in Nearest(FoodNear(Before), Before) :
          ~Within(placed_blocks[i], Before, FacilityDistance)

\* C11: a rabbit that is not eating, drinking, sleeping or breeding, with
\* food_level < 30, water_level >= 30, no harvestable farm within 500 and a
\* Food block within 500 but out of reach, heads in that tick for the
\* interaction point of the nearest Food block, gets no farther from it
\* (nearer, when its way is free), takes no wander step, and has its wander
\* target and waiting flag reset.
HungrySeeksFood ==
    [][HungryAwayFromFood =>
          /\ \E i \in Nearest(FoodNear(Before), Before) :
                /\ trace'.target_x = InteractionPoint(placed_blocks[i]).x
                /\ trace'.target_y = InteractionPoint(placed_blocks[i]).y
          /\ "seek_move" \in trace'.steps
          /\ trace'.steps \cap WanderSteps = {}
          /\ After.random_target_x = None /\ After.random_target_y = None
          /\ ~After.is_waiting
          /\ ~Acting(After) /\ ~After.is_breeding
          /\ ToTarget2(After, trace'.target_x, trace'.target_y)
                <= ToTarget2(Before, trace'.target_x, trace'.target_y)
          /\ (\A ddx, ddy \in (-U)..U :
                 ~check_collision(Before, ddx, ddy, placed_blocks))
             => ToTarget2(After, trace'.target_x, trace'.target_y)
                  < ToTarget2(Before, trace'.target_x, trace'.target_y)]_vars

\* the hungry rabbit has stepped toward the nearer Food block, past the
\* farther one that comes first in placed_blocks
HungrySeeksFoodWitness ==
    /\ "food_seek" \in trace.steps
    /\ trace.target_x = 175 * U /\ trace.target_y = 175 * U
    /\ rabbits[trace.rabbit].x > 135 * U
    /\ rabbits[trace.rabbit].food_level < 30 * L

\* what harvest() does to block b
HarvestContract(b) ==
    IF b.block_type = "farm" /\ b.growth_stage = 3
    THEN /\ harvest(b).ret
         /\ harvest(b).block = [b EXCEPT !.growth_stage = 0, !.growth_timer = 0]
    ELSE /\ ~harvest(b).ret
         /\ harvest(b).block = b

\* C12: harvest() on a Farm at growth_stage 3 resets growth_stage and
\* growth_timer to 0 and returns True; on any other block it returns False
\* and changes nothing.  Checked on every block of every reachable state and
\* on every harvest the warden performs.
HarvestResets ==
    /\ [](\A i \in 1..Len(placed_blocks) : HarvestContract(placed_blocks[i]))
    /\ [][HarvestStep =>
            /\ lastOp'.ret
            /\ Len(placed_blocks') = Len(placed_blocks)
            /\ \A i \in 1..Len(placed_blocks) :
                  IF placed_blocks[i].x = lastOp'.x /\ placed_blocks[i].y = lastOp'.y
                  THEN /\ placed_blocks[i].growth_stage = 3
                       /\ placed_blocks'[i] =
                             [placed_blocks[i] EXCEPT !.growth_stage = 0,
                                                      !.growth_timer = 0]
                  ELSE placed_blocks'[i] = placed_blocks[i]]_vars

\* the warden has just harvested a ripe farm, next to a farm that is not ripe
HarvestResetsWitness ==
    /\ lastOp.op = "harvest" /\ lastOp.ret
    /\ \E i \in 1..Len(placed_blocks) :
          /\ placed_blocks[i].x = lastOp.x /\ placed_blocks[i].y = lastOp.y
          /\ placed_blocks[i].block_type = "farm"
          /\ placed_blocks[i].growth_stage = 0 /\ placed_blocks[i].growth_timer = 0
    /\ \E i \in 1..Len(placed_blocks) :
          /\ placed_blocks[i].block_type = "farm"
          /\ placed_blocks[i].growth_timer > 0

\* the step just taken is the player's remove_block call
RemoveStep == ops' = ops + 1 /\ lastOp'.op = "remove"

\* the blocks of a list that lie exactly on the grid cell of (x, y)
OnCell(blocks, x, y) ==
    {i \in 1..Len(blocks) : blocks[i].x = Snap(x) /\ blocks[i].y = Snap(y)}

\* C13: remove_block(x, y) removes exactly the one block whose position is
\* the grid-snapped (x, y) and returns True, leaving every other block,
\* every character and the carrot count unchanged; with no block on that
\* cell it returns False and changes nothing.
RemoveBlockFrame ==
    [][RemoveStep =>
          /\ warden' = warden /\ rabbits' = rabbits
          /\ IF OnCell(placed_blocks, lastOp'.x, lastOp'.y) = {}
             THEN ~lastOp'.ret /\ placed_blocks' = placed_blocks
             ELSE /\ lastOp'.ret
                  /\ Len(placed_blocks') = Len(placed_blocks) - 1
                  /\ OnCell(placed_blocks', lastOp'.x, lastOp'.y) = {}
                  /\ \E k \in OnCell(placed_blocks, lastOp'.x, lastOp'.y) :
                        \A j \in 1..Len(placed_blocks') :
                            placed_blocks'[j] =
                                placed_blocks[IF j < k THEN j ELSE j + 1]]_vars

\* a block was removed from a world that keeps other blocks, one of them in
\* the same column
RemoveBlockFrameWitness ==
    /\ lastOp.op = "remove" /\ lastOp.ret
    /\ \E i \in 1..Len(placed_blocks) : placed_blocks[i].x = Snap(lastOp.x)
    /\ OnCell(placed_blocks, lastOp.x, lastOp.y) = {}

-----------------------------------------------------------------------------
(* GameWorld.toggle_door *)

ToggleStep == ops' = ops + 1 /\ lastOp'.op = "toggle"

\* the Door blocks of a list that lie exactly on the grid cell of (x, y)
DoorsOnCell(blocks, x, y) ==
    {i \in OnCell(blocks, x, y) : blocks[i].block_type = "door"}

\* what toggle_door(x, y) does in the current state
ToggleContract(x, y) ==
    LET res == toggle_door(placed_blocks, warden, rabbits, x, y)
        obj == toggle_door_objects(placed_blocks, items, bullets, x, y)
        D == DoorsOnCell(placed_blocks, x, y)
    IN  IF D = {}
        THEN /\ ~res.ret
             /\ res.blocks = placed_blocks
             /\ res.warden = warden /\ res.rabbits = rabbits
             /\ obj.items = items /\ obj.bullets = bullets
        ELSE /\ res.ret
             /\ Cardinality(D) = 1
             /\ Len(res.blocks) = Len(placed_blocks)
             /\ \A i \in 1..Len(placed_blocks) :
                   res.blocks[i] =
                       IF i \in D
                       THEN [placed_blocks[i] EXCEPT !.is_open = ~placed_blocks[i].is_open]
                       ELSE placed_blocks[i]
             /\ \A i \in D :
                   ~placed_blocks[i].is_open =>
                       /\ res.warden = warden /\ res.rabbits = rabbits
                       /\ obj.items = items /\ obj.bullets = bullets

\* the points toggle_door is probed at: the clicked points and every block
ToggleProbes ==
    ClickPoints \cup {[x |-> placed_blocks[i].x, y |-> placed_blocks[i].y] :
                         i \in 1..Len(placed_blocks)}

\* C14: toggle_door(x, y) flips is_open of exactly the Door on the snapped
\* cell and returns True; with no Door there it returns False and changes
\* nothing; a door going from closed to open relocates no character and no
\* item and removes no bullet.  Checked on every probe point of every
\* reachable state and on every toggle the warden performs.
ToggleDoorFrame ==
    /\ [](\A p \in ToggleProbes : ToggleContract(p.x, p.y))
    /\ [][ToggleStep =>
            /\ lastOp'.ret
            /\ Len(placed_blocks') = Len(placed_blocks)
            /\ \A i \in 1..Len(placed_blocks) :
                  placed_blocks'[i] =
                      IF i \in DoorsOnCell(placed_blocks, lastOp'.x, lastOp'.y)
                      THEN [placed_blocks[i] EXCEPT !.is_open = ~placed_blocks[i].is_open]
                      ELSE placed_blocks[i]
            /\ \A i \in DoorsOnCell(placed_blocks, lastOp'.x, lastOp'.y) :
                  ~placed_blocks[i].is_open =>
                      /\ warden' = warden /\ rabbits' = rabbits
                      /\ items' = items /\ bullets' = bullets]_vars

\* the warden has just opened a door whose cell holds an item that nobody
\* holds and a bullet, beside blocks of other kinds
ToggleDoorFrameWitness ==
    /\ lastOp.op = "toggle" /\ lastOp.ret
    /\ \E i \in DoorsOnCell(placed_blocks, lastOp.x, lastOp.y) :
          /\ placed_blocks[i].is_open
          /\ \E k \in 1..Len(items) :
                ~items[k].held /\ Intersects(ItemRect(items[k]), BlockRect(placed_blocks[i]))
          /\ \E k \in 1..Len(bullets) :
                Intersects(BulletRect(bullets[k]), BlockRect(placed_blocks[i]))
    /\ \E i \in 1..Len(placed_blocks) : placed_blocks[i].block_type # "door"

-----------------------------------------------------------------------------
(* GameWorld.check_collision *)

\* the bounding box of character c after a move by (dx, dy)
MovedBox(c, dx, dy) == CharRect([c EXCEPT !.x = c.x + dx, !.y = c.y + dy])

\* the blocks that stop a character
Solid(b) ==
    \/ b.block_type \in {"wall", "fence"}
    \/ b.block_type = "door" /\ ~b.is_open

\* a rectangle reaches beyond the world
OutsideWorld(r) ==
    \/ r.x < 0 \/ r.x + r.w > WorldWidth * U
    \/ r.y < 0 \/ r.y + r.h > WorldHeight * U

\* the displacements check_collision is probed with: a warden's step
CollisionProbes == {-(WardenSpeed * U), 0, WardenSpeed * U}

\* what check_collision(c, dx, dy) answers in the current state
CollisionContract(c, dx, dy) ==
    check_collision(c, dx, dy, placed_blocks) <=>
        \/ \E i \in 1..Len(Walls) : Intersects(MovedBox(c, dx, dy), Walls[i])
        \/ \E i \in 1..Len(placed_blocks) :
              /\ Solid(placed_blocks[i])
              /\ Intersects(MovedBox(c, dx, dy), BlockRect(placed_blocks[i]))
        \/ OutsideWorld(MovedBox(c, dx, dy))

\* the characters in world.characters
AllCharacters == {warden} \cup {rabbits[i] : i \in 1..Len(rabbits)}

WardenWalks ==
    /\ pc = "idle" /\ pc' = "ai"
    /\ (warden'.x # warden.x \/ warden'.y # warden.y)

\* C15: check_collision(character, dx, dy) returns True exactly when the
\* character's post-move bounding box intersects a wall, intersects a placed
\* Wall, Fence or closed Door, or reaches outside the world; open Doors,
\* Food, Water and Farm blocks never make it return True.  Checked for every
\* character of every reachable state and every probed displacement, and on
\* every step the warden walks: the box it walks into is free in that sense,
\* and the walk changes nothing but the warden's position.
CollisionExact ==
    /\ [](\A c \in AllCharacters : \A dx, dy \in CollisionProbes :
              CollisionContract(c, dx, dy))
    /\ [][WardenWalks =>
            /\ ~OutsideWorld(CharRect(warden'))
            /\ \A i \in 1..Len(placed_blocks) :
                  Solid(placed_blocks[i]) =>
                      ~Intersects(CharRect(warden'), BlockRect(placed_blocks[i]))
            /\ warden' = [warden EXCEPT !.x = warden'.x, !.y = warden'.y]
            /\ rabbits' = rabbits]_vars

\* the warden has walked into an open doorway, in which a rabbit stands that
\* is free where it is, stopped by a wall to its east and by the edge of the
\* world to its west
CollisionExactWitness ==
    /\ ticks > 0 /\ "S" \in keys_pressed
    /\ \E i \in 1..Len(placed_blocks) :
          /\ placed_blocks[i].block_type = "door" /\ placed_blocks[i].is_open
          /\ Intersects(CharRect(warden), BlockRect(placed_blocks[i]))
          /\ \E j \in 1..Len(rabbits) :
                /\ Intersects(CharRect(rabbits[j]), BlockRect(placed_blocks[i]))
                /\ ~check_collision(rabbits[j], 0, 0, placed_blocks)
                /\ check_collision(rabbits[j], WardenSpeed * U, 0, placed_blocks)
                /\ check_collision(rabbits[j], -(WardenSpeed * U), 0, placed_blocks)
                /\ \E k \in 1..Len(placed_blocks) :
                      /\ placed_blocks[k].block_type = "wall"
                      /\ Intersects(MovedBox(rabbits[j], WardenSpeed * U, 0),
                                    BlockRect(placed_blocks[k]))

-----------------------------------------------------------------------------
(* GameWorld.find_nearest_food_block, find_nearest_water_block,
   find_nearest_harvestable_farm *)

FinderKinds == {"food", "water", "farm"}

\* the blocks a finder asks for
OfKind(kind) ==
    {i \in 1..Len(placed_blocks) :
        /\ placed_blocks[i].block_type = kind
        /\ kind = "farm" => placed_blocks[i].growth_stage = 3}

\* what the finder for a kind returns for the point (x, y)
Found(kind, x, y, max_dist) ==
    IF kind = "food" THEN find_nearest_food_block(placed_blocks, x, y, max_dist)
    ELSE IF kind = "water" THEN find_nearest_water_block(placed_blocks, x, y, max_dist)
    ELSE find_nearest_harvestable_farm(placed_blocks, x, y, max_dist)

\* the search distances the finders are probed with: those the AI loop
\* passes and two short ones
FinderProbes == {25, 40, FarmSearchDistance, FacilitySearchDistance}

\* the blocks of a kind strictly closer than max_dist to (x, y)
InReach(kind, x, y, max_dist) ==
    {i \in OfKind(kind) :
        Dist2(placed_blocks[i], x, y) < (max_dist * U) * (max_dist * U)}

FinderContract(kind, x, y, max_dist) ==
    LET f == Found(kind, x, y, max_dist)
        R == InReach(kind, x, y, max_dist)
    IN  IF R = {} THEN f = None
        ELSE /\ f \in R
             /\ \A j \in R :
                   Dist2(placed_blocks[f], x, y) <= Dist2(placed_blocks[j], x, y)

\* C16: find_nearest_food_block, find_nearest_water_block and
\* find_nearest_harvestable_farm each return a block of the requested kind
\* (farms: growth_stage 3 only) at the least Euclidean distance among those
\* strictly closer than max_dist, and none exactly when there is no such
\* block.  Checked from the position of every character of every reachable
\* state, for every kind and every probed search distance.
FindersNearest ==
    \A c \in AllCharacters : \A kind \in FinderKinds : \A d \in FinderProbes :
        FinderContract(kind, c.x, c.y, d)

\* a rabbit seeking food has just been sent to the nearer of two Food
\* blocks in reach, which is not the first of them in the list, in a world
\* with a Water block in reach and no ripe farm
FindersNearestWitness ==
    /\ trace.rabbit \in Rabbits /\ "food_seek" \in trace.steps
    /\ LET r == rabbits[trace.rabbit]
           f == find_nearest_food_block(placed_blocks, r.x, r.y, FacilitySearchDistance)
       IN  /\ f > 1
           /\ \E j \in 1..(f - 1) : j \in InReach("food", r.x, r.y, FacilitySearchDistance)
           /\ find_nearest_water_block(placed_blocks, r.x, r.y,
                                       FacilitySearchDistance) # None
           /\ find_nearest_harvestable_farm(placed_blocks, r.x, r.y,
                                            FarmSearchDistance) = None

-----------------------------------------------------------------------------
(* GameView.update_game: the order of the phases of a tick *)

\* a step of update_game, as opposed to a key or mouse event
InTick == ops' = ops

\* the step that moves the bullets
BulletsPhase == InTick /\ pc = "idle" /\ pc' = "ai"

\* a step of the loop over the characters
AIPhase == InTick /\ trace'.rabbit # trace.rabbit /\ trace'.rabbit # 0

\* the step that holds the item pickup check
PickupPhase == InTick /\ pc' = "camera"

\* the step that moves the camera
CameraPhase == InTick /\ pc = "camera" /\ pc' = "idle"

\* every rabbit of the list has had its step in this tick
LoopFinished == rabbits = << >> \/ trace.rabbit = Len(rabbits)

\* C17: within every tick the phases run in a fixed order: the bullets are
\* updated before any rabbit's AI step, all AI steps run before the item
\* pickup check, and the pickup check runs before the camera update.
PhaseOrder ==
    /\ [][BulletsPhase =>
            /\ bullets' = update_bullets(bullets)
            /\ trace' = NoTrace /\ rabbits' = rabbits]_vars
    /\ [][InTick /\ bullets' # bullets => BulletsPhase]_vars
    /\ [][AIPhase =>
            /\ pc = "ai" /\ pc' = "ai"
            /\ trace'.rabbit = trace.rabbit + 1
            /\ items' = items /\ held_item' = held_item /\ camera' = camera]_vars
    /\ [][InTick /\ rabbits' # rabbits => AIPhase]_vars
    /\ [][PickupPhase =>
            /\ pc = "ai" /\ LoopFinished
            /\ items' = item_pickup(items, held_item, warden).items
            /\ held_item' = item_pickup(items, held_item, warden).held_item
            /\ camera' = camera /\ rabbits' = rabbits /\ bullets' = bullets]_vars
    /\ [][InTick /\ (items' # items \/ held_item' # held_item) => PickupPhase]_vars
    /\ [][CameraPhase =>
            /\ camera' = camera_follow(warden)
            /\ items' = items /\ rabbits' = rabbits /\ bullets' = bullets]_vars
    /\ [][camera' # camera => CameraPhase]_vars

\* a tick just before its camera update: the bullet has moved, all three
\* rabbits have had their step, the warden has picked the second item up,
\* and the camera is still where the warden was
PhaseOrderWitness ==
    /\ pc = "camera"
    /\ Len(rabbits) >= 3 /\ trace.rabbit = Len(rabbits)
    /\ bullets # << >> /\ \A k \in 1..Len(bullets) : bullets[k].y > 300 * U
    /\ held_item = 2 /\ ~items[1].held /\ items[1].x = warden.x
    /\ camera # camera_follow(warden)

-----------------------------------------------------------------------------
(* GameView.update_game: the end of a farm meal *)

\* the rabbit about to take its step eats from a Farm target and its
\* action_timer crosses from above 0 to 0 or below in this tick
FarmMealDue ==
    /\ pc = "ai" /\ idx \in Rabbits
    /\ Before.is_eating
    /\ Before.target_facility # NoBlock
    /\ Before.target_facility.block_type = "farm"
    /\ Before.action_timer > 0
    /\ Before.action_timer - DeltaTime <= 0

\* the food level the tick's update_needs leaves an eating rabbit with
FedLevel(r) == Min(100 * L, r.food_level + PerTick(EatRestoreRate, DeltaTime))

\* C18: when a rabbit eating from a Farm target has its action_timer cross
\* from > 0 to <= 0 in a tick, then by the end of that rabbit's step the
\* targeted Farm is no longer in placed_blocks, the rabbit's food_level has
\* been raised by 30 capped at 100, is_eating is false and target_facility
\* is cleared.
FarmMealEnds ==
    [][AIStep /\ FarmMealDue =>
          /\ \A k \in 1..Len(placed_blocks') :
                placed_blocks'[k].id # Before.target_facility.id
          /\ After.food_level = Min(100 * L, FedLevel(Before) + FarmEatBonus * L)
          /\ After.food_level >= Min(100 * L, Before.food_level + FarmEatBonus * L)
          /\ ~After.is_eating
          /\ After.target_facility = NoBlock]_vars

\* a rabbit has just finished its meal on a farm that stood until then: the
\* farm is gone, another farm stands, and the rabbit's food level is its
\* old one plus the bonus, below 100
FarmMealEndsWitness ==
    /\ trace.rabbit \in Rabbits /\ "farm_eat_done" \in trace.steps
    /\ ticks = 0
    /\ LET r == rabbits[trace.rabbit]
       IN  /\ r.food_level = 80 * L + PerTick(EatRestoreRate, DeltaTime)
           /\ ~r.is_eating /\ r.target_facility = NoBlock
    /\ \A k \in 1..Len(placed_blocks) :
          ~(placed_blocks[k].x = 50 * U /\ placed_blocks[k].y = 50 * U)
    /\ \E k \in 1..Len(placed_blocks) : placed_blocks[k].block_type = "farm"

-----------------------------------------------------------------------------
(* GameView.update_game: the breeding relation *)

\* the rabbits that have a breeding partner
Partnered == {a \in Rabbits : rabbits[a].breeding_partner # None}

\* C19: at the end of every tick the breeding relation is a symmetric
\* partial matching: A.breeding_partner == B implies A != B,
\* B.breeding_partner == A, and A and B both have is_breeding true; hence no
\* rabbit is the partner of two different rabbits and no rabbit outside
\* breeding mode has a partner.
BreedingMatching ==
    pc = "idle" =>
        /\ \A a \in Partnered :
              LET b == rabbits[a].breeding_partner
              IN  /\ b \in Rabbits /\ b # a
                  /\ rabbits[b].breeding_partner = a
                  /\ rabbits[a].is_breeding /\ rabbits[b].is_breeding
        /\ \A a, c \in Partnered :
              rabbits[a].breeding_partner = rabbits[c].breeding_partner => a = c
        /\ \A a \in Rabbits : ~rabbits[a].is_breeding => a \notin Partnered

\* the end of a tick in which two of three rabbits in breeding mode were
\* paired with each other and the third found nobody free
BreedingMatchingWitness ==
    /\ pc = "idle" /\ ticks > 0
    /\ \E a, b, c \in Rabbits :
          /\ a # b /\ c \notin {a, b}
          /\ Courting(a, b) /\ Courting(b, a)
          /\ rabbits[c].is_breeding /\ rabbits[c].breeding_partner = None

-----------------------------------------------------------------------------
(* GameView.update_game: entering breeding mode *)

\* rabbit a enters breeding mode in this step
EntersBreeding(a) ==
    /\ a \in Rabbits
    /\ ~rabbits[a].is_breeding
    /\ rabbits'[a].is_breeding

\* C20: a rabbit's is_breeding changes from false to true only in a tick in
\* which, after that tick's need decay, the rabbit is not eating, drinking or
\* sleeping and health = 100, food_level >= 75, breeding_cooldown <= 0 and
\* sleep_level >= 20 hold; in that tick the rabbit performs no facility-seek,
\* sleep or wander step.
BreedingGate ==
    [][\A a \in 1..MaxRabbits :
          EntersBreeding(a) =>
              /\ AIStep /\ a = idx
              /\ ~Acting(update_needs(Before, DeltaTime))
              /\ update_needs(Before, DeltaTime).health = 100 * L
              /\ update_needs(Before, DeltaTime).food_level >= 75 * L
              /\ update_needs(Before, DeltaTime).breeding_cooldown <= 0
              /\ update_needs(Before, DeltaTime).sleep_level >= 20 * L
              /\ After.food_level >= 75 * L /\ After.sleep_level >= 20 * L
              /\ trace'.rabbit = a /\ trace'.steps = {"start_breeding"}
              /\ After.x = Before.x /\ After.y = Before.y
              /\ ~Acting(After)
              /\ After.target_facility = update_needs(Before, DeltaTime).target_facility
              /\ After.random_target_x = Before.random_target_x
              /\ After.random_target_y = Before.random_target_y
              /\ After.is_waiting = Before.is_waiting
              /\ placed_blocks' = placed_blocks]_vars

\* a rabbit that was waiting between two strolls has just entered breeding
\* mode where it stood, beside a rabbit already in breeding mode
BreedingGateWitness ==
    /\ trace.rabbit \in Rabbits /\ trace.steps = {"start_breeding"}
    /\ LET r == rabbits[trace.rabbit]
       IN  /\ r.is_breeding /\ r.breeding_partner = None
           /\ r.is_waiting
           /\ r.food_level >= 75 * L /\ r.food_level < 80 * L
    /\ \E b \in Rabbits : b # trace.rabbit /\ rabbits[b].is_breeding

-----------------------------------------------------------------------------
(* Rabbit.start_breeding and the action flags *)

\* C21: in every reachable state a rabbit with is_breeding true has
\* is_eating, is_drinking and is_sleeping all false.
BreedingExcludesActions ==
    \A a \in Rabbits : rabbits[a].is_breeding => ~Acting(rabbits[a])

\* a rabbit that finished a meal a tick ago has just entered breeding mode
\* while another rabbit of the list is eating
BreedingExcludesActionsWitness ==
    /\ trace.rabbit \in Rabbits /\ "start_breeding" \in trace.steps
    /\ rabbits[trace.rabbit].is_breeding
    /\ \E b \in Rabbits : ~rabbits[b].is_breeding /\ rabbits[b].is_eating

-----------------------------------------------------------------------------
(* Rabbit.update_needs: the end of sleep *)

\* the sleep levels and timers update_needs is probed with
SleepLevelProbes == {0, 50 * L, 100 * L - 1, 100 * L - PerTick(SleepRestoreRate, DeltaTime),
                     100 * L}
SleepTimerProbes == {DeltaTime \div 2, DeltaTime, DeltaTime + 1, SleepDuration}

\* rabbit r asleep with the given sleep level and timer
Asleep(r, level, timer) ==
    [r EXCEPT !.is_eating = FALSE, !.is_drinking = FALSE, !.is_sleeping = TRUE,
              !.is_breeding = FALSE, !.breeding_partner = None,
              !.sleep_level = level, !.action_timer = timer]

\* what one update_needs does to a sleeping rabbit
SleepContract(r) ==
    LET n == update_needs(r, DeltaTime)
    IN  /\ ~n.is_sleeping => n.sleep_level = 100 * L
        /\ (r.action_timer > 0 /\ r.action_timer - DeltaTime <= 0
              /\ n.sleep_level < 100 * L)
             => /\ n.is_sleeping
                /\ n.action_timer > 0
                /\ n.action_timer >= r.action_timer - DeltaTime
        /\ n.is_sleeping => n.action_timer > 0

\* C22: a rabbit's is_sleeping changes from true to false only in a tick at
\* whose end sleep_level is 100: when the sleep timer expires with
\* sleep_level < 100 the timer is extended and the rabbit stays asleep.
\* Checked on every step, and on update_needs applied to every rabbit put
\* to sleep with the probed levels and timers.
SleepUntilRested ==
    /\ [](\A a \in Rabbits : \A v \in SleepLevelProbes : \A t \in SleepTimerProbes :
              SleepContract(Asleep(rabbits[a], v, t)))
    /\ [][\A a \in 1..MaxRabbits :
            (a \in Rabbits /\ rabbits[a].is_sleeping /\ ~rabbits'[a].is_sleeping)
                => /\ AIStep /\ a = idx
                   /\ rabbits'[a].sleep_level = 100 * L]_vars
    /\ [][\A a \in 1..MaxRabbits :
            (a \in Rabbits /\ ~(AIStep /\ a = idx))
                => rabbits'[a].sleep_level = rabbits[a].sleep_level]_vars

\* a rabbit whose sleep timer has just run out is awake, fully rested, and
\* has started a meal in the same step
SleepUntilRestedWitness ==
    /\ trace.rabbit \in Rabbits /\ "eat_start" \in trace.steps
    /\ LET r == rabbits[trace.rabbit]
       IN  /\ ~r.is_sleeping /\ r.is_eating
           /\ r.sleep_level = 100 * L

-----------------------------------------------------------------------------
(* GameView.update_game: what the end of a farm meal removes *)

\* the step just taken completes a farm meal
MealCompletes == AIStep /\ "farm_eat_done" \in trace'.steps

\* C23: the completion of a rabbit's farm meal never removes from
\* placed_blocks any block other than the Farm that rabbit was targeting,
\* even if that Farm was already removed and a different block now occupies
\* its cell.
FarmMealRemovesOnlyFarm ==
    [][MealCompletes =>
          \A i \in 1..Len(placed_blocks) :
              placed_blocks[i].id # Before.target_facility.id
                  => \E j \in 1..Len(placed_blocks') :
                        placed_blocks'[j] = placed_blocks[i]]_vars

\* C24: each Farm block is consumed by at most one rabbit: the farm meal
\* bonus is granted at most once per Farm block.
FarmEatenOnce ==
    \A i, j \in 1..Len(fed) : fed[i].farm = fed[j].farm => i = j

-----------------------------------------------------------------------------
(* GameView.update_game: ripe farms before Food blocks, water after food *)

WaterNear(r) ==
    {i \in 1..Len(placed_blocks) :
        placed_blocks[i].block_type = "water"
        /\ Within(placed_blocks[i], r, FacilitySearchDistance)}

\* the rabbit about to take its step is neither acting nor breeding and has
\* a ripe farm within search distance
FarmInSight ==
    /\ AIStep
    /\ ~Acting(Before) /\ ~Before.is_breeding
    /\ RipeFarmNear(Before) # {}

\* the step heads for the centre of block i
HeadsFor(i) ==
    /\ trace'.target_x = InteractionPoint(placed_blocks[i]).x
    /\ trace'.target_y = InteractionPoint(placed_blocks[i]).y

\* the step neither starts a meal at a Food block nor heads for one
NoFoodBlock ==
    /\ trace'.steps \cap {"eat_start", "food_seek"} = {}
    /\ After.target_facility # NoBlock => After.target_facility.block_type # "food"
    /\ \A i \in 1..Len(placed_blocks) :
          placed_blocks[i].block_type = "food" => ~HeadsFor(i)

\* C25 as stated: in any tick in which a rabbit that is neither acting nor
\* breeding has a harvestable Farm within 500 units, it neither starts
\* eating at nor heads for a Food block, whatever its food_level; it starts
\* a 3-second farm meal if within 30 units of the farm centre and otherwise
\* targets the farm centre.
FarmFirstAlways ==
    [][FarmInSight =>
          /\ NoFoodBlock
          /\ \E i \in Nearest(RipeFarmNear(Before), Before) :
                IF Within(placed_blocks[i], Before, FarmEatDistance)
                THEN "farm_eat_start" \in trace'.steps
                ELSE HeadsFor(i)]_vars

\* C25, amended: the same for a rabbit that does not enter breeding mode in
\* that tick; the farm meal it starts lasts 3 seconds unless a drink or a
\* sleep started later in the same tick replaces it; and the farm centre is
\* its target unless it is thirsty with a Water block in range but out of
\* reach, whose centre is then the target.
FarmFirst ==
    [][FarmInSight /\ "start_breeding" \notin trace'.steps =>
          /\ NoFoodBlock
          /\ \E i \in Nearest(RipeFarmNear(Before), Before) :
                IF Within(placed_blocks[i], Before, FarmEatDistance)
                THEN /\ "farm_eat_start" \in trace'.steps
                     /\ trace'.steps \cap {"drink_start", "sleep_start"} = {}
                            => /\ After.is_eating
                               /\ After.action_timer = FarmEatDuration
                               /\ After.target_facility = BlockRef(placed_blocks[i])
                ELSE /\ "farm_seek" \in trace'.steps
                     /\ IF "water_seek" \in trace'.steps
                        THEN /\ After.water_level < 30 * L
                             /\ \E k \in Nearest(WaterNear(Before), Before) : HeadsFor(k)
                        ELSE HeadsFor(i)]_vars

\* a hungry rabbit standing at a Food block has walked off toward the centre
\* of a ripe farm
FarmFirstWitness ==
    /\ trace.rabbit \in Rabbits
    /\ trace.steps = {"farm_seek", "seek_move"}
    /\ LET r == rabbits[trace.rabbit]
       IN  /\ r.food_level < 30 * L
           /\ \E i \in 1..Len(placed_blocks) :
                 /\ placed_blocks[i].block_type = "food"
                 /\ Within(placed_blocks[i], r, FacilityDistance)
           /\ \E i \in RipeFarmNear(r) :
                 /\ trace.target_x = InteractionPoint(placed_blocks[i]).x
                 /\ trace.target_y = InteractionPoint(placed_blocks[i]).y
           /\ r.y < 160 * U

\* a hungry and thirsty rabbit with no ripe farm around, a Food block and a
\* Water block in search distance, and neither within reach (levels as the
\* decision sees them, after the tick's decay)
HungryAndThirsty ==
    /\ AIStep
    /\ ~Acting(Before) /\ ~Before.is_breeding
    /\ After.food_level < 30 * L /\ After.water_level < 30 * L
    /\ RipeFarmNear(Before) = {}
    /\ FoodNear(Before) # {} /\ WaterNear(Before) # {}
    /\ \A i \in FoodNear(Before) \cup WaterNear(Before) :
          ~Within(placed_blocks[i], Before, FacilityDistance)

\* C26: for a rabbit with food_level < 30 and water_level < 30, no
\* harvestable farm in range, and a Food block and a Water block within 500
\* units but neither within interaction range, the movement target used in
\* that tick is the nearest Water block's interaction point, not the Food
\* block's, and the rabbit's step of that tick is taken toward it.
WaterOverridesFood ==
    [][HungryAndThirsty =>
          /\ \E k \in Nearest(WaterNear(Before), Before) : HeadsFor(k)
          /\ \A i \in FoodNear(Before) : ~HeadsFor(i)
          /\ {"food_seek", "water_seek", "seek_move"} \subseteq trace'.steps
          /\ After = move_towards([After EXCEPT !.x = Before.x, !.y = Before.y],
                                  trace'.target_x, trace'.target_y, placed_blocks)]_vars

\* a hungry and thirsty rabbit has stepped toward the Water block, away from
\* the line to the nearest Food block
WaterOverridesFoodWitness ==
    /\ trace.rabbit \in Rabbits
    /\ {"food_seek", "water_seek", "seek_move"} \subseteq trace.steps
    /\ LET r == rabbits[trace.rabbit]
       IN  /\ r.food_level < 30 * L /\ r.water_level < 30 * L
           /\ trace.target_x = 175 * U /\ trace.target_y = 75 * U
           /\ r.x > 110 * U /\ r.y < 120 * U

-----------------------------------------------------------------------------
(* Rabbit.move_towards: the fallback when the full displacement is blocked *)

\* the displacement move_towards computes for character c and a target
Heading(c, tx, ty) ==
    LET dx == tx - c.x
        dy == ty - c.y
        distance == Sqrt(dx * dx + dy * dy)
    IN  [dx |-> TruncDiv(dx * c.speed, distance),
         dy |-> TruncDiv(dy * c.speed, distance)]

\* the rabbit as move_towards finds it: where the step began, at the speed
\* update_needs has set in this step
Mover == [Before EXCEPT !.speed = After.speed]

\* the rabbit's step ends in the one move_towards of the seeking rabbit, and
\* the full displacement toward its target is blocked
BlockedSeek ==
    /\ AIStep /\ "seek_move" \in trace'.steps
    /\ ~DistLess(trace'.target_x - Before.x, trace'.target_y - Before.y, 1)
    /\ LET h == Heading(Mover, trace'.target_x, trace'.target_y)
       IN  check_collision(Mover, h.dx, h.dy, placed_blocks)

XOnlyFree(c, h) ==
    Abs(h.dx) * 10 > U /\ ~check_collision(c, h.dx, 0, placed_blocks)

YOnlyFree(c, h) ==
    Abs(h.dy) * 10 > U /\ ~check_collision(c, 0, h.dy, placed_blocks)

\* C27 as stated: in move_towards, when the full displacement is blocked by
\* check_collision, the X-only and the Y-only displacements are each
\* attempted independently: each is applied exactly when it is free, so that
\* either one, both, or neither may be applied in a single call.
AxesIndependent ==
    [][BlockedSeek =>
          LET h == Heading(Mover, trace'.target_x, trace'.target_y)
          IN  /\ After.x = Before.x + (IF XOnlyFree(Mover, h) THEN h.dx ELSE 0)
              /\ After.y = Before.y + (IF YOnlyFree(Mover, h) THEN h.dy ELSE 0)]_vars

\* C27, amended: when the full displacement is blocked, the X-only
\* displacement is applied if it exceeds 0.1 and is free; the Y-only
\* displacement is attempted only if the X-only one was not applied; so in a
\* single call one of the two or neither is applied, never both.
AxesInTurn ==
    [][BlockedSeek =>
          LET h == Heading(Mover, trace'.target_x, trace'.target_y)
          IN  /\ After.x = Before.x + (IF XOnlyFree(Mover, h) THEN h.dx ELSE 0)
              /\ After.y = Before.y + (IF ~XOnlyFree(Mover, h) /\ YOnlyFree(Mover, h)
                                       THEN h.dy ELSE 0)
              /\ After.x = Before.x \/ After.y = Before.y]_vars

\* a rabbit heading diagonally into the corner of a wall has moved along X
\* only, although the Y-only displacement was free as well
AxesInTurnWitness ==
    /\ trace.rabbit \in Rabbits /\ "seek_move" \in trace.steps
    /\ LET r == rabbits[trace.rabbit]
           was == [r EXCEPT !.x = 75 * U]
           h == Heading(was, trace.target_x, trace.target_y)
       IN  /\ r.y = 75 * U /\ r.x = 75 * U + h.dx /\ h.dx > 0
           /\ check_collision(was, h.dx, h.dy, placed_blocks)
           /\ XOnlyFree(was, h) /\ YOnlyFree(was, h)

-----------------------------------------------------------------------------
(* Rabbit.move_towards, GameView.update_game: acting rabbits stay in place *)

MoveProbes ==
    {[x |-> 0, y |-> 0], [x |-> 175 * U, y |-> 175 * U],
     [x |-> 25 * U, y |-> 1000 * U], [x |-> 1000 * U, y |-> 75 * U]}

\* rabbit r with exactly the action flag named by act set
Busy(r, act) ==
    [r EXCEPT !.is_eating = (act = "eat"), !.is_drinking = (act = "drink"),
              !.is_sleeping = (act = "sleep")]

\* C28: during the rabbit-AI phase of any tick, a rabbit that is eating,
\* drinking or sleeping does not change position: a rabbit that ends its
\* step with an action flag set is where it was, rabbits other than the one
\* taking its step stay in place, and move_towards leaves x and y unchanged
\* whenever is_sleeping, is_eating or is_drinking is true, whatever the
\* target.
ActingStaysPut ==
    /\ [](\A a \in Rabbits : \A act \in {"eat", "drink", "sleep"} : \A t \in MoveProbes :
              LET r == Busy(rabbits[a], act)
                  m == move_towards(r, t.x, t.y, placed_blocks)
              IN  m.x = r.x /\ m.y = r.y)
    /\ [][AIStep /\ Acting(After)
              => After.x = Before.x /\ After.y = Before.y]_vars
    /\ [][pc = "ai" =>
              \A a \in 1..MaxRabbits :
                  (a \in Rabbits /\ a # idx /\ Acting(rabbits[a]))
                      => rabbits'[a].x = rabbits[a].x /\ rabbits'[a].y = rabbits[a].y]_vars

\* a hungry and thirsty rabbit at a Water block has started to drink and
\* stayed where it was, although the way to its target, the Food block, was
\* free
ActingStaysPutWitness ==
    /\ trace.rabbit \in Rabbits
    /\ {"food_seek", "drink_start", "seek_move"} \subseteq trace.steps
    /\ LET r == rabbits[trace.rabbit]
           h == Heading(r, trace.target_x, trace.target_y)
       IN  /\ r.is_drinking
           /\ r.x = 30 * U /\ r.y = 170 * U
           /\ trace.target_x = 175 * U /\ trace.target_y = 175 * U
           /\ h.dx > 0
           /\ ~check_collision(r, h.dx, h.dy, placed_blocks)

-----------------------------------------------------------------------------
(* GameView.update_game: leaving breeding mode *)

Breeding(a) == a \in Rabbits /\ rabbits[a].is_breeding

LeavesBreeding(a) == Breeding(a) /\ ~rabbits'[a].is_breeding

\* another rabbit in breeding mode is free for a, or is a's partner
Available(a) ==
    /\ a \in Rabbits
    /\ \E b \in Rabbits \ {a} :
          /\ rabbits[b].is_breeding
          /\ rabbits[b].breeding_partner \in {None, a} \/ rabbits[a].breeding_partner = b

BreedingSteps == {"paired", "partner_lost", "bred", "breed_move", "breed_wait"}

\* C29: a rabbit's is_breeding changes from true to false only through a
\* breeding completion with a partner within 30 units; while is_breeding is
\* true the rabbit never starts eating, drinking, sleeping or wandering; so a
\* breeding rabbit for which no other breeding rabbit ever becomes available
\* remains in breeding mode in every later tick.
BreedingUntilBred ==
    /\ [][\A a \in 1..MaxRabbits :
            LeavesBreeding(a) =>
                /\ AIStep /\ "bred" \in trace'.steps
                /\ rabbits'[a].breeding_cooldown = BreedingCooldown
                /\ \E p \in Rabbits \ {a} :
                      /\ idx \in {a, p}
                      /\ LeavesBreeding(p)
                      /\ DistLess(rabbits[p].x - rabbits[a].x,
                                  rabbits[p].y - rabbits[a].y, BreedDistance)]_vars
    /\ [][AIStep /\ Before.is_breeding =>
            /\ trace'.steps \subseteq BreedingSteps
            /\ ~Acting(After)
            /\ After.target_facility = Before.target_facility
            /\ "bred" \notin trace'.steps =>
                  /\ After.random_target_x = Before.random_target_x
                  /\ After.random_target_y = Before.random_target_y
                  /\ After.is_waiting = Before.is_waiting]_vars
    /\ [][AIStep /\ Before.is_breeding /\ ~Available(idx) =>
            /\ After.is_breeding
            /\ trace'.steps \subseteq {"breed_wait", "partner_lost"}
            /\ After.x = Before.x /\ After.y = Before.y]_vars
    /\ \A a \in 1..MaxRabbits :
          [](Breeding(a) /\ [](~Available(a)) => []Breeding(a))

\* a thirsty rabbit alone in breeding mode, with a Water block and a ripe
\* farm in range, has spent its step waiting for a partner
BreedingUntilBredWitness ==
    /\ trace.rabbit \in Rabbits /\ trace.steps = {"breed_wait"}
    /\ LET r == rabbits[trace.rabbit]
       IN  /\ r.is_breeding /\ r.breeding_partner = None
           /\ ~Available(trace.rabbit)
           /\ r.water_level < 30 * L
           /\ WaterNear(r) # {} /\ RipeFarmNear(r) # {}

-----------------------------------------------------------------------------
(* Rabbit.update_needs, GameView.update_game: actions end *)

Actions == {"eat", "drink", "sleep"}

Doing(r, act) ==
    CASE act = "eat" -> r.is_eating
      [] act = "drink" -> r.is_drinking
      [] act = "sleep" -> r.is_sleeping

ActionStarts == {"farm_eat_start", "eat_start", "drink_start", "sleep_start"}

\* between ticks, rabbit a is at an action that the ticks still to come are
\* enough to finish: its timer runs out in them and, for a sleeper, its
\* sleep_level reaches 100 in them
Due(a, act) ==
    /\ pc = "idle" /\ a \in Rabbits
    /\ Doing(rabbits[a], act)
    /\ rabbits[a].action_timer <= (MaxTicks - ticks) * DeltaTime
    /\ act = "sleep" =>
          rabbits[a].sleep_level + (MaxTicks - ticks) * 3200 >= 100 * L

\* C30: every eating, drinking or sleeping action terminates: no rabbit is
\* ever left with an action flag set and action_timer <= 0; in each of its
\* steps an acting rabbit's timer goes down by the tick length until the
\* tick in which it runs out, and in that tick the action ends (or, for a
\* sleeper not yet rested, is extended by the time still needed); an action
\* that the remaining ticks suffice to finish has its flag cleared; and when
\* no action flag is set target_facility is none.
ActionsTerminate ==
    /\ [](\A a \in Rabbits : Acting(rabbits[a]) => rabbits[a].action_timer > 0)
    /\ [](\A a \in Rabbits : ~Acting(rabbits[a]) => rabbits[a].target_facility = NoBlock)
    /\ [][AIStep /\ Acting(Before) =>
            \/ /\ Before.action_timer > DeltaTime
               /\ After.action_timer = Before.action_timer - DeltaTime
               /\ \A act \in Actions : Doing(After, act) = Doing(Before, act)
            \/ /\ Before.action_timer <= DeltaTime
               /\ \/ \A act \in Actions : Doing(Before, act) => ~Doing(After, act)
                  \/ trace'.steps \cap ActionStarts # {}
                  \/ /\ Before.is_sleeping /\ After.is_sleeping
                     /\ After.sleep_level < 100 * L
                     /\ After.sleep_level > Before.sleep_level]_vars
    /\ \A a \in 1..MaxRabbits : \A act \in Actions :
          Due(a, act) ~> (a \in Rabbits /\ ~Doing(rabbits[a], act))

\* at the end of a tick a rabbit that was at its meal at a Food block has
\* finished it: no action flag is set, no facility is targeted, and the timer
\* has run out
ActionsTerminateWitness ==
    /\ pc = "idle" /\ ticks = MaxTicks
    /\ \E a \in Rabbits :
          /\ ~Acting(rabbits[a])
          /\ rabbits[a].action_timer <= 0
          /\ rabbits[a].target_facility = NoBlock
          /\ rabbits[a].food_level = 60 * L + 2 * 4000
          /\ \E i \in 1..Len(placed_blocks) :
                /\ placed_blocks[i].block_type = "food"
                /\ Within(placed_blocks[i], rabbits[a], FacilityDistance)

-----------------------------------------------------------------------------
(* GameWorld._push_objects_from_door: the closed door's cell is left empty *)

\* nothing that can be pushed lies in the cell of door
CellCleared(door, w, rs, its) ==
    /\ ~Intersects(CharRect(w), BlockRect(door))
    /\ \A i \in 1..Len(rs) : ~Intersects(CharRect(rs[i]), BlockRect(door))
    /\ \A i \in 1..Len(its) :
          ~its[i].held => ~Intersects(ItemRect(its[i]), BlockRect(door))

\* C31: immediately after toggle_door closes a door, no character's bounding
\* box and no unheld item's rect intersects that door's cell, whether the
\* entity was relocated by the free-cell search or by the fallback shove.
DoorCellCleared ==
    [][\A d \in 1..Len(placed_blocks) :
          ClosingStep(d) =>
              CellCleared(placed_blocks'[d], warden', rabbits', items')]_vars

\* the warden has just closed a door walled in on every searched cell: the
\* rabbit that stood at its centre has been shoved one cell north, the
\* warden and the item, which stood off the centre, two cells along their
\* offsets, and the doorway is empty
DoorCellClearedWitness ==
    /\ lastOp.op = "toggle" /\ lastOp.ret
    /\ lastOp.x = 200 * U /\ lastOp.y = 200 * U
    /\ Len(placed_blocks) = 21 /\ ~placed_blocks[1].is_open
    /\ rabbits[1].x = 225 * U /\ rabbits[1].y = 175 * U
    /\ warden.x > 250 * U /\ warden.y < 200 * U
    /\ items[1].x > 250 * U /\ items[1].y > 250 * U
    /\ CellCleared(placed_blocks[1], warden, rabbits, items)

\* C32: every position to which the door push-out resolver relocates a
\* character lies inside the world: the character's bounding box at the
\* destination is within [0, width] x [0, height], including for doors
\* adjacent to the world edge.
PushOutInsideWorld ==
    [][\A d \in 1..Len(placed_blocks) :
          ClosingStep(d) =>
              /\ Intersects(CharRect(warden), BlockRect(placed_blocks[d]))
                    => InsideWorld(warden')
              /\ \A i \in Rabbits :
                    Intersects(CharRect(rabbits[i]), BlockRect(placed_blocks[d]))
                        => InsideWorld(rabbits'[i])]_vars

-----------------------------------------------------------------------------
(* Character.carrots *)

CarrotsChange == warden'.carrots # warden.carrots

\* the step is a place_block call for a Farm by a warden holding a carrot
FarmPlacement ==
    /\ PlaceStep /\ lastOp'.block_type = "farm" /\ lastOp'.placer
    /\ warden.carrots >= 1

\* the step is the warden's harvest of a stage-3 farm
RipeHarvest ==
    /\ HarvestStep /\ lastOp'.ret
    /\ \E i \in 1..Len(placed_blocks) :
          /\ placed_blocks[i].block_type = "farm"
          /\ placed_blocks[i].x = lastOp'.x /\ placed_blocks[i].y = lastOp'.y
          /\ placed_blocks[i].growth_stage = 3
          /\ placed_blocks'[i].growth_stage = 0

\* C33: the warden's carrot count is never negative in any reachable state;
\* it changes only by -1 on a Farm placement and by +1 to +5 when the warden
\* harvests a stage-3 Farm.
CarrotsAccounted ==
    /\ [](warden.carrots >= 0)
    /\ [][CarrotsChange =>
            \/ FarmPlacement /\ warden'.carrots = warden.carrots - 1
            \/ RipeHarvest /\ warden'.carrots - warden.carrots \in 1..5]_vars
    /\ [][(PlaceStep /\ lastOp'.block_type = "farm" /\ lastOp'.ret)
              => warden'.carrots = warden.carrots - 1]_vars
    /\ [][RipeHarvest => warden'.carrots > warden.carrots]_vars

\* the warden has just planted a farm with its last carrot
CarrotsAccountedWitness ==
    /\ lastOp.op = "place" /\ lastOp.block_type = "farm" /\ lastOp.ret
    /\ warden.carrots = 0
    /\ \E i \in 1..Len(placed_blocks) :
          /\ placed_blocks[i].block_type = "farm"
          /\ placed_blocks[i].x = Snap(lastOp.x) /\ placed_blocks[i].y = Snap(lastOp.y)
          /\ placed_blocks[i].growth_stage = 0

-----------------------------------------------------------------------------
(* Rabbit.update_needs, GameView.update_game: the breeding cooldown *)

CooldownTicks == BreedingCooldown \div DeltaTime

\* C34: a rabbit that has completed breeding cannot re-enter breeding mode
\* while its breeding_cooldown is > 0, i.e. not until 30 seconds of simulated
\* ticks (dt = 0.016 s each) have elapsed since the completion: a completion
\* sets the cooldown of both parents to 30 s, which is 1875 ticks; a rabbit's
\* cooldown changes otherwise only in its own step, by one tick length while
\* it is positive; and a rabbit enters breeding mode only in a step in which
\* its cooldown, after that decrement, is <= 0.
CooldownRespected ==
    /\ [][\A a \in 1..MaxRabbits :
            LeavesBreeding(a) => rabbits'[a].breeding_cooldown = CooldownTicks * DeltaTime]_vars
    /\ [][\A a \in 1..MaxRabbits :
            (a \in Rabbits /\ ~LeavesBreeding(a)
             /\ rabbits'[a].breeding_cooldown # rabbits[a].breeding_cooldown)
                => /\ AIStep /\ a = idx
                   /\ rabbits[a].breeding_cooldown > 0
                   /\ rabbits'[a].breeding_cooldown
                         = rabbits[a].breeding_cooldown - DeltaTime]_vars
    /\ [][\A a \in 1..MaxRabbits :
            (a \in Rabbits /\ AIStep /\ a = idx /\ ~LeavesBreeding(a)
             /\ rabbits[a].breeding_cooldown > 0)
                => rabbits'[a].breeding_cooldown
                      = rabbits[a].breeding_cooldown - DeltaTime]_vars
    /\ [][\A a \in 1..MaxRabbits :
            EntersBreeding(a) =>
                /\ rabbits[a].breeding_cooldown <= DeltaTime
                /\ rabbits'[a].breeding_cooldown <= 0]_vars

\* a rabbit whose cooldown had two ticks left has entered breeding mode in
\* the second tick, the first in which its cooldown was used up
CooldownRespectedWitness ==
    /\ ticks = 1 /\ trace.rabbit \in Rabbits
    /\ trace.steps = {"start_breeding"}
    /\ LET r == rabbits[trace.rabbit]
       IN  /\ r.is_breeding
           /\ r.breeding_cooldown = 0
           /\ r.x > 400 * U /\ r.y > 400 * U

------------------------------------------------------------------------------
(* C35: bullets after update_bullets *)

\* bullet c is bullet b one move later: same angle, advanced by speed along it
Flew(b, c) ==
    /\ c.angle = b.angle /\ c.active = b.active
    /\ c.x - b.x = TruncDiv(CosOf(b.angle) * BulletSpeed * U, 10000)
    /\ c.y - b.y = TruncDiv(SinOf(b.angle) * BulletSpeed * U, 10000)

\* the point of the bullet lies inside the world bounds
BulletInWorld(c) ==
    /\ c.x >= 0 /\ c.x <= WorldWidth * U
    /\ c.y >= 0 /\ c.y <= WorldHeight * U

BulletHitsWall(c) ==
    \E i \in 1..Len(Walls) : Intersects(BulletRect(c), Walls[i])

\* where bullet b is after its move
Landing(b) ==
    [x |-> b.x + TruncDiv(CosOf(b.angle) * BulletSpeed * U, 10000),
     y |-> b.y + TruncDiv(SinOf(b.angle) * BulletSpeed * U, 10000)]

\* C35: after every update_bullets call each bullet still in the list has
\* advanced by exactly its speed along its angle, lies inside the world bounds
\* and intersects no wall, and every bullet that is out of bounds or in a wall
\* after its move has been removed; the bullets that stay keep their order.
BulletsAdvance ==
    [][BulletsPhase =>
        \E f \in [1..Len(bullets') -> 1..Len(bullets)] :
            /\ \A i, j \in 1..Len(bullets') : i < j => f[i] < f[j]
            /\ \A i \in 1..Len(bullets') :
                  /\ Flew(bullets[f[i]], bullets'[i])
                  /\ BulletInWorld(bullets'[i])
                  /\ ~BulletHitsWall(bullets'[i])
            /\ \A k \in 1..Len(bullets) :
                  (\A i \in 1..Len(bullets') : f[i] # k) =>
                      \/ ~BulletInWorld(Landing(bullets[k]))
                      \/ BulletHitsWall(Landing(bullets[k]))]_vars

\* in the doorway scene the first update_bullets call has run: the bullet
\* that flew west from x = 15 has advanced onto the bound x = 0 and is kept,
\* and the bullet the warden shot west from x = 25, which landed out of
\* bounds, has been removed
BulletsAdvanceWitness ==
    /\ pc = "ai" /\ ticks = 0 /\ lastOp.op = "shoot"
    /\ \E i \in 1..Len(placed_blocks) : placed_blocks[i] = OpenDoor(1, 0, 50)
    /\ ~BulletInWorld(Landing(shotgun_use(warden, 4)))
    /\ bullets = <<Bullet(0, 70, 4)>>

------------------------------------------------------------------------------
(* C36: bullets in a closing door *)

\* the 3 x 3 rect of bullet b, whose corner is one unit up and left of the
\* bullet's point, overlaps the cell of door
BulletInCell(b, door) ==
    /\ b.x - U < door.x + BlockSize * U
    /\ door.x < b.x + 2 * U
    /\ b.y - U < door.y + BlockSize * U
    /\ door.y < b.y + 2 * U

\* C36: when toggle_door closes a door, every active bullet whose rect
\* intersects the door's cell is removed from the bullet list and is not
\* relocated; the bullets that do not intersect the cell are unchanged.
ClosingDoorDestroysBullets ==
    [][\A d \in 1..Len(placed_blocks) :
          ClosingStep(d) =>
              LET Stays(b) == ~(b.active /\ BulletInCell(b, placed_blocks'[d]))
              IN  /\ bullets' = SelectSeq(bullets, Stays)
                  /\ \A i \in 1..Len(bullets') :
                        /\ \E k \in 1..Len(bullets) : bullets'[i] = bullets[k]
                        /\ ~BulletInCell(bullets'[i], placed_blocks'[d])]_vars

\* the walled-in door has just been closed before any tick: the bullet inside
\* the doorway and the one whose rect crossed its west edge are gone, and the
\* one whose rect only touched the edge is where it was
ClosingDoorDestroysBulletsWitness ==
    /\ lastOp.op = "toggle" /\ lastOp.ret
    /\ lastOp.x = 200 * U /\ lastOp.y = 200 * U
    /\ ticks = 0 /\ ~placed_blocks[1].is_open
    /\ bullets = <<Bullet(198, 225, 3)>>

------------------------------------------------------------------------------
(* C37: no bullet stays in the list forever *)

\* bullet b after n moves
Flight(b, n) ==
    [b EXCEPT !.x = b.x + n * TruncDiv(CosOf(b.angle) * BulletSpeed * U, 10000),
              !.y = b.y + n * TruncDiv(SinOf(b.angle) * BulletSpeed * U, 10000)]

\* the shortest move a bullet makes along an axis it moves on (a diagonal)
MinStride == TruncDiv(Cos45[2] * BulletSpeed * U, 10000)

\* no bullet inside the world stays inside it for more moves than this
MaxFlight == ((WorldWidth + WorldHeight) * U) \div MinStride + 1

\* the number of update_bullets calls bullet b has left: the first move that
\* takes it out of the world bounds (0 if no move does)
TicksLeft(b) ==
    IF \E n \in 1..MaxFlight : ~BulletInWorld(Flight(b, n))
    THEN CHOOSE n \in 1..MaxFlight :
            /\ ~BulletInWorld(Flight(b, n))
            /\ \A m \in 1..(n - 1) : BulletInWorld(Flight(b, m))
    ELSE 0

InList(b) == \E i \in 1..Len(bullets) : bullets[i] = b

\* the bullets the scenes start with and the bullets their wardens can shoot
\* from where they stand
TrackedBullets ==
    UNION {{sc.bullets[i] : i \in 1..Len(sc.bullets)} \cup
           {shotgun_use(sc.warden, aim) : aim \in AimAngles} : sc \in Scenes}

\* a tracked bullet b and a tick count t such that b, if it is in the list
\* after t ticks, leaves the world within the ticks of a behaviour
DueFlights ==
    {p \in TrackedBullets \X (0..MaxTicks) :
        TicksLeft(p[1]) >= 1 /\ p[2] + TicksLeft(p[1]) <= MaxTicks}

\* C37: every bullet is eventually removed from the world. A bullet in the
\* list is active and moves a non-zero distance per tick, so a finite number
\* of moves takes it out of the world bounds; each update_bullets call
\* lowers that number by exactly one for every bullet it keeps and keeps no
\* bullet whose number was one; no other step moves a bullet; and a bullet
\* whose number the remaining ticks cover does not stay on its flight: a
\* tick ends with the list not holding it at the place its moves since have
\* taken it to.
BulletsLeave ==
    /\ [](\A i \in 1..Len(bullets) :
            bullets[i].active /\ TicksLeft(bullets[i]) >= 1)
    /\ [][BulletsPhase =>
            /\ Len(bullets') <= Len(bullets)
            /\ \A i \in 1..Len(bullets') :
                  \E k \in 1..Len(bullets) :
                      /\ bullets'[i] = Flight(bullets[k], 1)
                      /\ TicksLeft(bullets[k]) > 1
                      /\ TicksLeft(bullets'[i]) = TicksLeft(bullets[k]) - 1]_vars
    /\ [][~BulletsPhase =>
            \A i \in 1..Len(bullets') :
                \/ \E k \in 1..Len(bullets) : bullets'[i] = bullets[k]
                \/ lastOp'.op = "shoot" /\ ops' = ops + 1 /\ i = Len(bullets')]_vars
    /\ \A p \in DueFlights :
          (pc = "idle" /\ ticks = p[2] /\ InList(p[1]))
              ~> /\ pc = "idle" /\ ticks >= p[2]
                 /\ ~InList(Flight(p[1], ticks - p[2]))

\* the ticks of the doorway scene have run: the bullet that flew west from
\* x = 15, which had two moves left, and a bullet the warden shot across the
\* near edge of the world, which had one, have both left the list
BulletsLeaveWitness ==
    /\ pc = "idle" /\ ticks = MaxTicks /\ lastOp.op = "shoot"
    /\ \E i \in 1..Len(placed_blocks) : placed_blocks[i] = OpenDoor(1, 0, 50)
    /\ TicksLeft(Bullet(15, 70, 4)) = 2
    /\ \E aim \in AimAngles : TicksLeft(shotgun_use(warden, aim)) = 1
    /\ bullets = << >>

------------------------------------------------------------------------------
(* C38: the wander state machine *)

HasTarget(r) == r.random_target_x # None /\ r.random_target_y # None

\* the loop body just taken went through the wander state machine
WanderRan == AIStep /\ trace'.steps \cap WanderSteps # {}

\* a waiting rabbit has no wander target
WaitingHasNoTarget ==
    \A i \in Rabbits : rabbits[i].is_waiting => ~HasTarget(rabbits[i])

\* every wander target lies within the world margin
TargetsInMargin ==
    \A i \in Rabbits :
        HasTarget(rabbits[i]) =>
            /\ rabbits[i].random_target_x >= WorldMargin * U
            /\ rabbits[i].random_target_x <= (WorldWidth - WorldMargin) * U
            /\ rabbits[i].random_target_y >= WorldMargin * U
            /\ rabbits[i].random_target_y <= (WorldHeight - WorldMargin) * U

\* a rabbit that goes through the wander state machine with a target less
\* than 15 units away arrives; a rabbit that arrives waits between 1 and 3
\* seconds with no target; one that does not arrive keeps its target
ArrivalWaits ==
    /\ (WanderRan /\ ~Before.is_waiting /\ HasTarget(Before)
         /\ ToTarget2(Before, Before.random_target_x, Before.random_target_y)
               < (WanderArriveDistance * U) * (WanderArriveDistance * U))
        => "wander_arrive" \in trace'.steps
    /\ "wander_arrive" \in trace'.steps =>
          /\ ~Before.is_waiting
          /\ After.is_waiting /\ ~HasTarget(After)
          /\ After.wait_timer >= 1000 /\ After.wait_timer <= 3000
          /\ After.x = Before.x /\ After.y = Before.y
    /\ "wander_move" \in trace'.steps =>
          /\ ~After.is_waiting /\ HasTarget(After)
          /\ HasTarget(Before) =>
                /\ After.random_target_x = Before.random_target_x
                /\ After.random_target_y = Before.random_target_y
                /\ ToTarget2(Before, Before.random_target_x, Before.random_target_y)
                      >= (WanderArriveDistance * U) * (WanderArriveDistance * U)

\* a rabbit that was waiting and no longer is
LeftWaiting == AIStep /\ Before.is_waiting /\ ~After.is_waiting

\* C38 as stated: at the end of every tick a rabbit with is_waiting true has
\* no wander target; on arriving within 15 units of its target it enters
\* waiting with a wait_timer between 1 and 3 seconds and the target cleared;
\* it leaves waiting only when wait_timer has reached <= 0; and every wander
\* target chosen lies within [50, width-50] x [50, height-50].
WanderExclusive ==
    /\ [](WaitingHasNoTarget /\ TargetsInMargin)
    /\ [][AIStep => ArrivalWaits]_vars
    /\ [][LeftWaiting => After.wait_timer <= 0]_vars

\* C38, amended: as stated, but a rabbit leaves waiting in two ways: when
\* the wander state machine finds that wait_timer has reached <= 0, and then
\* with a new target; or when an earlier stage of the loop body resets the
\* wander state (the rabbit seeks or uses a farm, food, water or a sleep
\* spot, or its breeding completes), which clears is_waiting and leaves
\* wait_timer as it was, whatever its value. A rabbit that the wander state
\* machine finds waiting with time left stays waiting and its timer goes
\* down by the tick length.
WanderExclusiveOrReset ==
    /\ [](WaitingHasNoTarget /\ TargetsInMargin)
    /\ [][AIStep => ArrivalWaits]_vars
    /\ [][LeftWaiting =>
            \/ /\ "wander_pick" \in trace'.steps
               /\ After.wait_timer <= 0
               /\ After.wait_timer = Before.wait_timer - DeltaTime
               /\ HasTarget(After)
            \/ /\ "wander_pick" \notin trace'.steps
               /\ After.wait_timer = Before.wait_timer]_vars
    /\ [][AIStep /\ "wander_wait" \in trace'.steps =>
            /\ Before.is_waiting /\ After.is_waiting
            /\ After.wait_timer = Before.wait_timer - DeltaTime
            /\ After.wait_timer > 0]_vars

\* the ticks have run for the two wandering rabbits: the one by the east
\* margin left waiting when its timer ran out, chose a target east that was
\* cut off at the margin, and arrived at it in the next tick; the other
\* walked one unit and arrived at 14 units from its target; both wait with
\* no target
WanderExclusiveOrResetWitness ==
    /\ pc = "idle" /\ ticks = MaxTicks /\ Len(rabbits) = 2
    /\ rabbits[1].x = 1940 * U /\ rabbits[1].wait_timer \in WaitTimes
    /\ rabbits[2].x = 1001 * U /\ rabbits[2].wait_timer \in WaitTimes
    /\ \A i \in Rabbits : rabbits[i].is_waiting /\ ~HasTarget(rabbits[i])

====
